---------------------------- MODULE Spec2Model ----------------------------
(***************************************************************************)
(* A model of the UBL invoice builder of the e-Factura SDK                 *)
(* (dist/ubl/InvoiceBuilder.js, called through UblBuilder.generateInvoice- *)
(* Xml): validation, line calculation, tax grouping, and the numeric       *)
(* content of the assembled document.                                      *)
(*                                                                         *)
(* JavaScript numbers are IEEE-754 binary64 values.  The builder only ever *)
(* computes with finite non-negative numbers (validation rejects the       *)
(* rest), so a number is modelled exactly as m * 2^e with 2^52 <= m < 2^53 *)
(* (or as Zero); the mantissa is an arbitrary-precision natural held as a  *)
(* little-endian sequence of base-2^15 limbs, because a mantissa does not  *)
(* fit a machine integer of the checker.  +, *, / are correctly rounded    *)
(* (round to nearest, ties to even), Number.prototype.toFixed and          *)
(* parseFloat are computed on the exact binary value, as the language      *)
(* specifies them.  Strings are sequences of one-character strings.        *)
(***************************************************************************)
EXTENDS Integers, Sequences, FiniteSets, TLC

-----------------------------------------------------------------------------
(* Arbitrary-precision naturals: little-endian limbs, no leading zero limb. *)

Base == 2^15
LimbBits == 15

RECURSIVE BigNorm(_)
BigNorm(a) ==
    IF a = <<>> THEN a
    ELSE IF a[Len(a)] = 0 THEN BigNorm(SubSeq(a, 1, Len(a) - 1))
    ELSE a

RECURSIVE BigFromInt(_)
BigFromInt(n) ==
    IF n = 0 THEN <<>> ELSE <<n % Base>> \o BigFromInt(n \div Base)

RECURSIVE BigToInt(_)
BigToInt(a) ==
    IF a = <<>> THEN 0 ELSE a[1] + Base * BigToInt(Tail(a))

RECURSIVE BigAddC(_, _, _)
BigAddC(a, b, c) ==
    IF a = <<>> /\ b = <<>>
    THEN (IF c = 0 THEN <<>> ELSE <<c>>)
    ELSE LET x == IF a = <<>> THEN 0 ELSE a[1]
             y == IF b = <<>> THEN 0 ELSE b[1]
             s == x + y + c
         IN <<s % Base>> \o BigAddC(IF a = <<>> THEN a ELSE Tail(a),
                                    IF b = <<>> THEN b ELSE Tail(b),
                                    s \div Base)

BigAdd(a, b) == BigAddC(a, b, 0)

RECURSIVE BigMulSmallC(_, _, _)
BigMulSmallC(a, s, c) ==
    IF a = <<>> THEN BigFromInt(c)
    ELSE LET p == a[1] * s + c
         IN <<p % Base>> \o BigMulSmallC(Tail(a), s, p \div Base)

\* a * s for 0 <= s < Base
BigMulSmall(a, s) == IF s = 0 THEN <<>> ELSE BigMulSmallC(a, s, 0)

RECURSIVE BigMulR(_, _)
BigMulR(a, b) ==
    IF b = <<>> THEN <<>>
    ELSE BigAdd(BigMulSmall(a, b[1]), <<0>> \o BigMulR(a, Tail(b)))

BigMul(a, b) == BigNorm(BigMulR(a, b))

\* quotient (not normalised) and remainder of a by s, 0 < s <= Base
RECURSIVE BigDivRem(_, _)
BigDivRem(a, s) ==
    IF a = <<>> THEN [q |-> <<>>, r |-> 0]
    ELSE LET hi  == BigDivRem(Tail(a), s)
             cur == hi.r * Base + a[1]
         IN [q |-> <<cur \div s>> \o hi.q, r |-> cur % s]

BigDivSmall(a, s) == BigNorm(BigDivRem(a, s).q)
BigModSmall(a, s) == BigDivRem(a, s).r

Zeros(n) == [i \in 1..n |-> 0]

\* a * 2^k
BigShl(a, k) ==
    IF a = <<>> THEN <<>>
    ELSE Zeros(k \div LimbBits) \o BigMulSmall(a, 2^(k % LimbBits))

\* floor(a / 2^k)
BigShr(a, k) ==
    LET d == k \div LimbBits
    IN IF d >= Len(a) THEN <<>>
       ELSE BigDivSmall(SubSeq(a, d + 1, Len(a)), 2^(k % LimbBits))

\* bit k of a (bit 0 is the least significant)
BigBit(a, k) ==
    LET s == BigShr(a, k) IN s # <<>> /\ s[1] % 2 = 1

\* a mod 2^k = 0
BigLowZero(a, k) ==
    LET d == k \div LimbBits
    IN /\ \A i \in 1..d : i > Len(a) \/ a[i] = 0
       /\ d + 1 > Len(a) \/ a[d + 1] % (2^(k % LimbBits)) = 0

RECURSIVE BitLenSmall(_)
BitLenSmall(n) == IF n = 0 THEN 0 ELSE 1 + BitLenSmall(n \div 2)

BigBitLen(a) ==
    IF a = <<>> THEN 0
    ELSE LimbBits * (Len(a) - 1) + BitLenSmall(a[Len(a)])

BigIsOdd(a) == a # <<>> /\ a[1] % 2 = 1

-----------------------------------------------------------------------------
(* binary64 values: the finite non-negative ones, m * 2^e, and NaN *)

MantBits == 53

Zero == [m |-> <<>>, e |-> 0]
NaN == [nan |-> TRUE]

\* the double nearest to N * 2^e (ties to even), N an exact natural
RoundToDouble(N, e) ==
    IF N = <<>> THEN Zero
    ELSE LET L == BigBitLen(N)
         IN IF L <= MantBits
            THEN [m |-> BigShl(N, MantBits - L), e |-> e - (MantBits - L)]
            ELSE LET sh == L - MantBits
                     q  == BigShr(N, sh)
                     up == /\ BigBit(N, sh - 1)
                           /\ (~BigLowZero(N, sh - 1) \/ BigIsOdd(q))
                     q1 == IF up THEN BigAdd(q, <<1>>) ELSE q
                 IN IF BigBitLen(q1) > MantBits
                    THEN [m |-> BigShr(q1, 1), e |-> e + sh + 1]
                    ELSE [m |-> q1, e |-> e + sh]

Min(a, b) == IF a <= b THEN a ELSE b

\* x + y
DAdd(x, y) ==
    IF x = NaN \/ y = NaN THEN NaN
    ELSE IF x = Zero THEN y
    ELSE IF y = Zero THEN x
    ELSE LET lo == Min(x.e, y.e)
         IN RoundToDouble(BigAdd(BigShl(x.m, x.e - lo), BigShl(y.m, y.e - lo)), lo)

\* x * y
DMul(x, y) ==
    IF x = NaN \/ y = NaN THEN NaN
    ELSE IF x = Zero \/ y = Zero THEN Zero
    ELSE RoundToDouble(BigMul(x.m, y.m), x.e + y.e)

GuardBits == 30

\* x / n for the integer 0 < n < Base: the quotient is computed with GuardBits
\* extra bits and a sticky bit for the discarded remainder, then rounded once
DDivInt(x, n) ==
    IF x = NaN THEN NaN
    ELSE IF x = Zero THEN Zero
    ELSE LET d == BigDivRem(BigShl(x.m, GuardBits), n)
             q == BigNorm(d.q)
         IN RoundToDouble(BigAdd(BigShl(q, 1), IF d.r # 0 THEN <<1>> ELSE <<>>),
                          x.e - GuardBits - 1)

\* floor(N / 10^d) and whether anything was discarded
RECURSIVE DivPow10(_, _)
DivPow10(N, d) ==
    IF d = 0 THEN [q |-> N, sticky |-> FALSE]
    ELSE LET r == DivPow10(N, d - 1)
             s == BigDivRem(r.q, 10)
         IN [q |-> BigNorm(s.q), sticky |-> r.sticky \/ s.r # 0]

DecimalGuard == 90

\* the double nearest to K / 10^d (K an exact natural): how a decimal literal
\* and parseFloat read a decimal numeral
FromDecimalBig(K, d) ==
    LET r == DivPow10(BigShl(K, DecimalGuard), d)
    IN RoundToDouble(BigAdd(BigShl(r.q, 1), IF r.sticky THEN <<1>> ELSE <<>>),
                     0 - DecimalGuard - 1)

\* the number written k / 10^d in the source or the caller's data
Num(k, d) == FromDecimalBig(BigFromInt(k), d)

-----------------------------------------------------------------------------
(* Number.prototype.toFixed(2) and parseFloat on its result *)

DigitChars == <<"0", "1", "2", "3", "4", "5", "6", "7", "8", "9">>
IsDigit(c) == \E i \in 1..10 : DigitChars[i] = c
DigitOf(c) == (CHOOSE i \in 1..10 : DigitChars[i] = c) - 1

\* decimal digits of the natural N, most significant first; <<>> for 0
RECURSIVE BigDigits(_)
BigDigits(N) ==
    IF N = <<>> THEN <<>>
    ELSE LET s == BigDivRem(N, 10)
         IN Append(BigDigits(BigNorm(s.q)), DigitChars[s.r + 1])

RECURSIVE BigPow10(_)
BigPow10(d) == IF d = 0 THEN <<1>> ELSE BigMulSmall(BigPow10(d - 1), 10)

\* the integer n for which n / 10^f - x is as close to zero as possible, the
\* larger n when there are two (ECMA-262, Number.prototype.toFixed)
ToFixedInt(x, f) ==
    IF x = Zero THEN <<>>
    ELSE LET N == BigMul(x.m, BigPow10(f))
         IN IF x.e >= 0 THEN BigShl(N, x.e)
            ELSE BigAdd(BigShr(N, 0 - x.e),
                        IF BigBit(N, 0 - x.e - 1) THEN <<1>> ELSE <<>>)

RECURSIVE PadZeros(_, _)
PadZeros(m, len) == IF Len(m) >= len THEN m ELSE PadZeros(<<"0">> \o m, len)

\* x.toFixed(f) for 0 <= x < 10^21: the digits of n, padded to at least f + 1,
\* with "." before the last f; "NaN" for NaN
ToFixed(x, f) ==
    IF x = NaN THEN <<"N", "a", "N">>
    ELSE LET m == PadZeros(BigDigits(ToFixedInt(x, f)), f + 1)
             k == Len(m)
         IN IF f = 0 THEN m
            ELSE SubSeq(m, 1, k - f) \o <<".">> \o SubSeq(m, k - f + 1, k)

RECURSIVE DigitsToBig(_)
DigitsToBig(s) ==
    IF s = <<>> THEN <<>>
    ELSE BigAdd(BigMulSmall(DigitsToBig(SubSeq(s, 1, Len(s) - 1)), 10),
                BigFromInt(DigitOf(s[Len(s)])))

\* parseFloat of a numeral "ddd.dd" or "ddd", and of "NaN"
ParseFloat(s) ==
    IF s = <<"N", "a", "N">> THEN NaN
    ELSE LET dots == {i \in 1..Len(s) : s[i] = "."}
             dot  == IF dots = {} THEN Len(s) + 1 ELSE CHOOSE i \in dots : TRUE
             ds   == SubSeq(s, 1, dot - 1) \o SubSeq(s, dot + 1, Len(s))
         IN FromDecimalBig(DigitsToBig(ds), Len(s) - Min(dot, Len(s)))

\* Number::toString for 0 <= x < 10^21 that need no exponent: the shortest
\* decimal numeral that reads back as x, i.e. x.toFixed(d) for the least d
\* whose numeral parses to x
RECURSIVE NumberToStringFrom(_, _)
NumberToStringFrom(x, d) ==
    IF ParseFloat(ToFixed(x, d)) = x THEN ToFixed(x, d)
    ELSE NumberToStringFrom(x, d + 1)

NumberToString(x) == IF x = NaN THEN <<"N", "a", "N">> ELSE NumberToStringFrom(x, 0)

\* x < y and x > y on doubles (false when either is NaN)
RECURSIVE BigLess(_, _)
BigLess(a, b) ==
    IF Len(a) # Len(b) THEN Len(a) < Len(b)
    ELSE IF a = <<>> THEN FALSE
    ELSE IF a[Len(a)] # b[Len(b)] THEN a[Len(a)] < b[Len(b)]
    ELSE BigLess(SubSeq(a, 1, Len(a) - 1), SubSeq(b, 1, Len(b) - 1))

DLess(x, y) ==
    IF x = NaN \/ y = NaN THEN FALSE
    ELSE IF y = Zero THEN FALSE
    ELSE IF x = Zero THEN TRUE
    ELSE IF x.e # y.e THEN x.e < y.e
    ELSE BigLess(x.m, y.m)

-----------------------------------------------------------------------------
(* JavaScript values *)

Undefined == [t |-> "undefined"]
Str(chars) == [t |-> "string", s |-> chars]
Bool(b) == [t |-> "boolean", b |-> b]
\* the number (neg ? -1 : 1) * k / 10^d
Number(neg, k, d) == [t |-> "number", neg |-> neg /\ k # 0, v |-> Num(k, d)]
Pos(k, d) == Number(FALSE, k, d)

TypeOf(x) == x.t

\* ToBoolean
Truthy(x) ==
    CASE x.t = "undefined" -> FALSE
      [] x.t = "string"    -> x.s # <<>>
      [] x.t = "boolean"   -> x.b
      [] x.t = "number"    -> x.v # Zero /\ x.v # NaN
      [] x.t = "whole"     -> x.n # 0
      [] x.t = "whole-nan" -> FALSE
      [] x.t = "null"      -> FALSE
      [] OTHER             -> TRUE

\* relational operators against a numeric literal, for number operands
NumLE0(x) == x.v # NaN /\ (x.neg \/ x.v = Zero)
NumLT0(x) == x.v # NaN /\ x.neg
NumGT(x, k) == ~x.neg /\ DLess(Num(k, 0), x.v)

\* the number NaN
NaNValue == [t |-> "number", neg |-> FALSE, v |-> NaN]

WhiteSpace == {" ", "\t", "\n"}

RECURSIVE TrimStart(_)
TrimStart(s) ==
    IF s # <<>> /\ s[1] \in WhiteSpace THEN TrimStart(Tail(s)) ELSE s

RECURSIVE TrimEnd(_)
TrimEnd(s) ==
    IF s # <<>> /\ s[Len(s)] \in WhiteSpace
    THEN TrimEnd(SubSeq(s, 1, Len(s) - 1)) ELSE s

\* String.prototype.trim
Trim(s) == TrimEnd(TrimStart(s))

\* x?.trim()
OptTrim(x) == IF x.t = "undefined" THEN Undefined ELSE Str(Trim(x.s))

-----------------------------------------------------------------------------
(* Errors.  A message is the sequence of the parts of its template literal. *)

NoError == [name |-> "none", message |-> <<>>]
AnafValidationError(message) == [name |-> "AnafValidationError", message |-> message]
AnafAuthenticationError(message) == [name |-> "AnafAuthenticationError", message |-> message]
Error(message) == [name |-> "Error", message |-> message]

-----------------------------------------------------------------------------
(* validateInvoiceInput and its helpers: each returns the error it throws,  *)
(* or NoError when it returns normally.                                     *)

validateAddress(address, role) ==
    IF ~Truthy(OptTrim(address.street))
    THEN AnafValidationError(<<role, " street address is required">>)
    ELSE IF ~Truthy(OptTrim(address.city))
    THEN AnafValidationError(<<role, " city is required">>)
    ELSE IF ~Truthy(OptTrim(address.postalZone))
    THEN AnafValidationError(<<role, " postal zone is required">>)
    ELSE NoError

validateParty(party, role) ==
    IF ~Truthy(OptTrim(party.registrationName))
    THEN AnafValidationError(<<role, " registration name is required">>)
    ELSE IF ~Truthy(OptTrim(party.companyId))
    THEN AnafValidationError(<<role, " company ID is required">>)
    ELSE IF ~Truthy(party.address)
    THEN AnafValidationError(<<role, " address is required">>)
    ELSE validateAddress(party.address, role)

\* variant: the quantity is checked before the description
validateLineQuantityFirst(line, index) ==
    IF TypeOf(line.quantity) # "number" \/ NumLE0(line.quantity)
    THEN AnafValidationError(<<"Line ", ToString(index + 1), ": Quantity must be a positive number">>)
    ELSE IF ~Truthy(OptTrim(line.description))
    THEN AnafValidationError(<<"Line ", ToString(index + 1), ": Description is required">>)
    ELSE IF TypeOf(line.unitPrice) # "number" \/ NumLT0(line.unitPrice)
    THEN AnafValidationError(<<"Line ", ToString(index + 1), ": Unit price must be a non-negative number">>)
    ELSE IF /\ line.taxPercent # Undefined
            /\ \/ TypeOf(line.taxPercent) # "number"
               \/ NumLT0(line.taxPercent)
               \/ NumGT(line.taxPercent, 100)
    THEN AnafValidationError(<<"Line ", ToString(index + 1), ": Tax percent must be between 0 and 100">>)
    ELSE NoError

\* index is 0-based, as Array.prototype.forEach passes it
validateLine(line, index) ==
    IF ~Truthy(OptTrim(line.description))
    THEN AnafValidationError(<<"Line ", ToString(index + 1), ": Description is required">>)
    ELSE IF TypeOf(line.quantity) # "number" \/ NumLE0(line.quantity)
    THEN AnafValidationError(<<"Line ", ToString(index + 1), ": Quantity must be a positive number">>)
    ELSE IF TypeOf(line.unitPrice) # "number" \/ NumLT0(line.unitPrice)
    THEN AnafValidationError(<<"Line ", ToString(index + 1), ": Unit price must be a non-negative number">>)
    ELSE IF /\ line.taxPercent # Undefined
            /\ \/ TypeOf(line.taxPercent) # "number"
               \/ NumLT0(line.taxPercent)
               \/ NumGT(line.taxPercent, 100)
    THEN AnafValidationError(<<"Line ", ToString(index + 1), ": Tax percent must be between 0 and 100">>)
    ELSE NoError

\* input.lines.forEach((line, index) => validateLine(line, index)), from index on:
\* the first throw ends the loop
RECURSIVE validateLinesFrom(_, _)
validateLinesFrom(lines, index) ==
    IF index >= Len(lines) THEN NoError
    ELSE LET e == validateLine(lines[index + 1], index)
         IN IF e # NoError THEN e ELSE validateLinesFrom(lines, index + 1)

\* variant: the supplier is checked before the invoice number and issue date
validateInvoiceInputSupplierFirst(in) ==
    IF ~Truthy(in)
    THEN AnafValidationError(<<"Invoice input data is required">>)
    ELSE IF ~Truthy(in.supplier)
    THEN AnafValidationError(<<"Supplier information is required">>)
    ELSE IF validateParty(in.supplier, "Supplier") # NoError
    THEN validateParty(in.supplier, "Supplier")
    ELSE IF ~Truthy(OptTrim(in.invoiceNumber))
    THEN AnafValidationError(<<"Invoice number is required">>)
    ELSE IF ~Truthy(in.issueDate)
    THEN AnafValidationError(<<"Issue date is required">>)
    ELSE IF ~Truthy(in.customer)
    THEN AnafValidationError(<<"Customer information is required">>)
    ELSE IF validateParty(in.customer, "Customer") # NoError
    THEN validateParty(in.customer, "Customer")
    ELSE IF ~Truthy(in.lines)
    THEN AnafValidationError(<<"Invoice lines array is required">>)
    ELSE IF Len(in.lines.items) > 0
    THEN validateLinesFrom(in.lines.items, 0)
    ELSE NoError

validateInvoiceInput(in) ==
    IF ~Truthy(in)
    THEN AnafValidationError(<<"Invoice input data is required">>)
    ELSE IF ~Truthy(OptTrim(in.invoiceNumber))
    THEN AnafValidationError(<<"Invoice number is required">>)
    ELSE IF ~Truthy(in.issueDate)
    THEN AnafValidationError(<<"Issue date is required">>)
    ELSE IF ~Truthy(in.supplier)
    THEN AnafValidationError(<<"Supplier information is required">>)
    ELSE IF validateParty(in.supplier, "Supplier") # NoError
    THEN validateParty(in.supplier, "Supplier")
    ELSE IF ~Truthy(in.customer)
    THEN AnafValidationError(<<"Customer information is required">>)
    ELSE IF validateParty(in.customer, "Customer") # NoError
    THEN validateParty(in.customer, "Customer")
    ELSE IF ~Truthy(in.lines)
    THEN AnafValidationError(<<"Invoice lines array is required">>)
    ELSE IF Len(in.lines.items) > 0
    THEN validateLinesFrom(in.lines.items, 0)
    ELSE NoError

-----------------------------------------------------------------------------
(* constants.js *)

DEFAULT_CURRENCY == <<"R", "O", "N">>
DEFAULT_COUNTRY_CODE == <<"R", "O">>
DEFAULT_UNIT_CODE == <<"E", "A">>
INVOICE_TYPE_CODE == <<"3", "8", "0">>
UBL_CUSTOMIZATION_ID ==
    <<"u", "r", "n", ":", "c", "e", "n", ".", "e", "u", ":", "e",
      "n", "1", "6", "9", "3", "1", ":", "2", "0", "1", "7", "#",
      "c", "o", "m", "p", "l", "i", "a", "n", "t", "#", "u", "r",
      "n", ":", "e", "f", "a", "c", "t", "u", "r", "a", ".", "m",
      "f", "i", "n", "a", "n", "t", "e", ".", "r", "o", ":", "C",
      "I", "U", "S", "-", "R", "O", ":", "1", ".", "0", ".", "1">>

VAT == <<"V", "A", "T">>
VATEX_EU_O == <<"V", "A", "T", "E", "X", "-", "E", "U", "-", "O">>

-----------------------------------------------------------------------------
(* formatDateForAnaf.  The dates the model draws are strings: one in the    *)
(* YYYY-MM-DD pattern, returned as it is, and ones that fail the pattern    *)
(* and that Date cannot parse, for which the function throws.               *)

IsIsoDate(s) ==
    /\ Len(s) = 10
    /\ \A i \in {1, 2, 3, 4, 6, 7, 9, 10} : IsDigit(s[i])
    /\ s[5] = "-" /\ s[8] = "-"

formatDateForAnaf(date) ==
    IF TypeOf(date) = "string" /\ IsIsoDate(date.s)
    THEN [error |-> NoError, value |-> date.s]
    ELSE [error |-> Error(<<"Invalid date provided">>), value |-> <<>>]

-----------------------------------------------------------------------------
(* Line calculator and tax grouper *)

\* x || d
OrElse(x, d) == IF Truthy(x) THEN x ELSE d

\* variant: the unit price is not rounded before the multiplication
calculateLineExtensionSingleRounding(line) ==
    ParseFloat(ToFixed(DMul(line.quantity.v, line.unitPrice.v), 2))

calculateLineExtension(line) ==
    LET roundedUnitPrice == ParseFloat(ToFixed(line.unitPrice.v, 2))
    IN ParseFloat(ToFixed(DMul(line.quantity.v, roundedUnitPrice), 2))

\* the category a line is grouped under (groupLinesByTax)
groupCategoryId(taxPercent, isVatPayer) ==
    IF ~Truthy(isVatPayer) THEN "O"
    ELSE IF NumGT(taxPercent, 0) THEN "S"
    ELSE "Z"

\* variant: the key leaves the tax percent out
groupKeyByCategory(categoryId, taxPercent) == <<categoryId>>

\* `${categoryId}-${taxPercent}`
groupKey(categoryId, taxPercent) ==
    <<categoryId, "-">> \o NumberToString(taxPercent.v)

\* Map: the entries in insertion order
MapHas(map, key) == \E i \in 1..Len(map) : map[i].key = key
MapIndex(map, key) == CHOOSE i \in 1..Len(map) : map[i].key = key
MapValues(map) == [i \in 1..Len(map) |-> map[i].value]

\* variant: the running sums are not rounded after the addition
groupLineUnrounded(taxGroups, line, isVatPayer) ==
    LET taxPercent    == OrElse(line.taxPercent, Pos(0, 0))
        lineExtension == calculateLineExtension(line)
        taxAmount     == ParseFloat(ToFixed(DMul(lineExtension, DDivInt(taxPercent.v, 100)), 2))
        categoryId    == groupCategoryId(taxPercent, isVatPayer)
        exemptionReasonCode ==
            IF ~Truthy(isVatPayer) THEN Str(VATEX_EU_O) ELSE Undefined
        key == groupKey(categoryId, taxPercent)
    IN IF MapHas(taxGroups, key)
       THEN LET i == MapIndex(taxGroups, key)
                group == taxGroups[i].value
            IN [taxGroups EXCEPT ![i].value =
                   [group EXCEPT
                      !.taxableAmount = DAdd(group.taxableAmount, lineExtension),
                      !.taxAmount = DAdd(group.taxAmount, taxAmount)]]
       ELSE Append(taxGroups,
                   [key |-> key,
                    value |-> [categoryId |-> categoryId,
                               percent |-> taxPercent,
                               taxableAmount |-> lineExtension,
                               taxAmount |-> taxAmount,
                               exemptionReasonCode |-> exemptionReasonCode]])

\* variant: a line of an existing group replaces the group's amounts
groupLineOverwrite(taxGroups, line, isVatPayer) ==
    LET taxPercent    == OrElse(line.taxPercent, Pos(0, 0))
        lineExtension == calculateLineExtension(line)
        taxAmount     == ParseFloat(ToFixed(DMul(lineExtension, DDivInt(taxPercent.v, 100)), 2))
        categoryId    == groupCategoryId(taxPercent, isVatPayer)
        exemptionReasonCode ==
            IF ~Truthy(isVatPayer) THEN Str(VATEX_EU_O) ELSE Undefined
        key == groupKey(categoryId, taxPercent)
    IN IF MapHas(taxGroups, key)
       THEN LET i == MapIndex(taxGroups, key)
                group == taxGroups[i].value
            IN [taxGroups EXCEPT ![i].value =
                   [group EXCEPT
                      !.taxableAmount = ParseFloat(ToFixed(lineExtension, 2)),
                      !.taxAmount = ParseFloat(ToFixed(taxAmount, 2))]]
       ELSE Append(taxGroups,
                   [key |-> key,
                    value |-> [categoryId |-> categoryId,
                               percent |-> taxPercent,
                               taxableAmount |-> lineExtension,
                               taxAmount |-> taxAmount,
                               exemptionReasonCode |-> exemptionReasonCode]])

\* one iteration of lines.forEach in groupLinesByTax
groupLine(taxGroups, line, isVatPayer) ==
    LET taxPercent    == OrElse(line.taxPercent, Pos(0, 0))
        lineExtension == calculateLineExtension(line)
        taxAmount     == ParseFloat(ToFixed(DMul(lineExtension, DDivInt(taxPercent.v, 100)), 2))
        categoryId    == groupCategoryId(taxPercent, isVatPayer)
        exemptionReasonCode ==
            IF ~Truthy(isVatPayer) THEN Str(VATEX_EU_O) ELSE Undefined
        key == groupKey(categoryId, taxPercent)
    IN IF MapHas(taxGroups, key)
       THEN LET i == MapIndex(taxGroups, key)
                group == taxGroups[i].value
            IN [taxGroups EXCEPT ![i].value =
                   [group EXCEPT
                      !.taxableAmount = ParseFloat(ToFixed(DAdd(group.taxableAmount, lineExtension), 2)),
                      !.taxAmount = ParseFloat(ToFixed(DAdd(group.taxAmount, taxAmount), 2))]]
       ELSE Append(taxGroups,
                   [key |-> key,
                    value |-> [categoryId |-> categoryId,
                               percent |-> taxPercent,
                               taxableAmount |-> lineExtension,
                               taxAmount |-> taxAmount,
                               exemptionReasonCode |-> exemptionReasonCode]])

\* groups.reduce((sum, group) => sum + amount(group), 0)
RECURSIVE reduceSum(_, _)
reduceSum(amounts, sum) ==
    IF amounts = <<>> THEN sum
    ELSE reduceSum(Tail(amounts), DAdd(sum, Head(amounts)))

\* variant: the reduce has no initial value and a callback that reads
\* .taxableAmount of its accumulator: the first group is left out
sumTaxableWithoutFirst(groups) ==
    reduceSum([i \in 1..(Len(groups) - 1) |-> groups[i + 1].taxableAmount], Zero)

sumTaxable(groups) == reduceSum([i \in 1..Len(groups) |-> groups[i].taxableAmount], Zero)
sumTax(groups) == reduceSum([i \in 1..Len(groups) |-> groups[i].taxAmount], Zero)

\* variant: the tax total is left out of the grand total
grandTotalOfTaxable(taxable, tax) == ParseFloat(ToFixed(taxable, 2))

\* variant: the grand total is not rounded
grandTotalOfUnrounded(taxable, tax) == DAdd(taxable, tax)

grandTotalOf(taxable, tax) == ParseFloat(ToFixed(DAdd(taxable, tax), 2))

-----------------------------------------------------------------------------
(* Document assembler: the element tree under <Invoice>, as the sequence of *)
(* the root's children in the order they are appended.                      *)

Text(x) == x.s

buildPartyXml(tagName, party) ==
    LET address == party.address
    IN [tag |-> tagName,
        streetName       |-> Text(OrElse(address.street, Str(<<>>))),
        cityName         |-> Text(OrElse(address.city, Str(<<>>))),
        postalZone       |-> Text(OrElse(address.postalZone, Str(<<>>))),
        countrySubentity |-> Text(OrElse(address.county, Str(<<>>))),
        countryCode      |-> Text(OrElse(address.countryCode, Str(DEFAULT_COUNTRY_CODE))),
        registrationName |-> Text(party.registrationName),
        companyID        |-> Text(party.companyId),
        partyTaxScheme   |->
            IF Truthy(party.vatNumber)
            THEN <<[companyID |-> Text(party.vatNumber), taxSchemeID |-> VAT]>>
            ELSE <<>>]

headerXml(in, currency, issueDate, dueDate) ==
    <<[tag |-> "cbc:CustomizationID", text |-> UBL_CUSTOMIZATION_ID],
      [tag |-> "cbc:ID", text |-> Text(in.invoiceNumber)],
      [tag |-> "cbc:IssueDate", text |-> issueDate],
      [tag |-> "cbc:DueDate", text |-> dueDate],
      [tag |-> "cbc:InvoiceTypeCode", text |-> INVOICE_TYPE_CODE],
      [tag |-> "cbc:DocumentCurrencyCode", text |-> currency]>>

paymentMeansXml(in) ==
    IF Truthy(in.paymentIban)
    THEN <<[tag |-> "cac:PaymentMeans",
            paymentMeansCode |-> <<"3", "0">>,
            payeeAccountID |-> Text(in.paymentIban)]>>
    ELSE <<>>

\* variant: the exemption reason is never written
taxSubtotalXmlWithoutReason(group, currency) ==
    [taxableAmount |-> ToFixed(group.taxableAmount, 2),
     taxAmount     |-> ToFixed(group.taxAmount, 2),
     currencyID    |-> currency,
     categoryID    |-> group.categoryId,
     percent       |-> ToFixed(group.percent.v, 2),
     taxExemptionReasonCode |-> <<>>,
     taxSchemeID   |-> VAT]

taxSubtotalXml(group, currency) ==
    [taxableAmount |-> ToFixed(group.taxableAmount, 2),
     taxAmount     |-> ToFixed(group.taxAmount, 2),
     currencyID    |-> currency,
     categoryID    |-> group.categoryId,
     percent       |-> ToFixed(group.percent.v, 2),
     taxExemptionReasonCode |->
         IF Truthy(group.exemptionReasonCode)
         THEN <<Text(group.exemptionReasonCode)>> ELSE <<>>,
     taxSchemeID   |-> VAT]

\* the default tax subtotal for empty invoices
defaultTaxSubtotalXml(currency) ==
    [taxableAmount |-> <<"0", ".", "0", "0">>,
     taxAmount     |-> <<"0", ".", "0", "0">>,
     currencyID    |-> currency,
     categoryID    |-> "S",
     percent       |-> <<"0", ".", "0", "0">>,
     taxExemptionReasonCode |-> <<>>,
     taxSchemeID   |-> VAT]

\* variant: no default subtotal for an invoice without groups
taxTotalXmlWithoutDefault(groups, totalTax, currency) ==
    [tag |-> "cac:TaxTotal",
     taxAmount  |-> ToFixed(totalTax, 2),
     currencyID |-> currency,
     taxSubtotals |-> [i \in 1..Len(groups) |-> taxSubtotalXml(groups[i], currency)]]

taxTotalXml(groups, totalTax, currency) ==
    [tag |-> "cac:TaxTotal",
     taxAmount  |-> ToFixed(totalTax, 2),
     currencyID |-> currency,
     taxSubtotals |->
         IF Len(groups) > 0
         THEN [i \in 1..Len(groups) |-> taxSubtotalXml(groups[i], currency)]
         ELSE <<defaultTaxSubtotalXml(currency)>>]

legalMonetaryTotalXml(totalTaxable, grand, currency) ==
    [tag |-> "cac:LegalMonetaryTotal",
     currencyID          |-> currency,
     lineExtensionAmount |-> ToFixed(totalTaxable, 2),
     taxExclusiveAmount  |-> ToFixed(totalTaxable, 2),
     taxInclusiveAmount  |-> ToFixed(grand, 2),
     payableAmount       |-> ToFixed(grand, 2)]

\* x?.toString() of a line id (a string, a number or undefined)
OptToString(x) ==
    CASE x.t = "undefined" -> Undefined
      [] x.t = "number"    -> Str(NumberToString(x.v))
      [] OTHER             -> x

\* variant: the invoice line ignores the VAT-payer flag
lineTaxCategoryIgnoringPayer(taxPercent, isVatPayer) ==
    IF NumGT(taxPercent, 0) THEN "S" ELSE "Z"

\* the category written on the invoice line (the invoice-line loop)
lineTaxCategory(taxPercent, isVatPayer) ==
    IF ~Truthy(isVatPayer) THEN "O"
    ELSE IF NumGT(taxPercent, 0) THEN "S"
    ELSE "Z"

\* variant: a line without id is numbered by its 0-based index
invoiceLineXmlZeroBased(line, index, isVatPayer, currency) ==
    LET lineId == OrElse(OptToString(line.id), Str(NumberToString(Num(index, 0))))
        lineExtension == calculateLineExtension(line)
        taxPercent == OrElse(line.taxPercent, Pos(0, 0))
        roundedUnitPrice == ParseFloat(ToFixed(line.unitPrice.v, 2))
    IN [tag |-> "cac:InvoiceLine",
        id |-> Text(lineId),
        unitCode |-> Text(OrElse(line.unitCode, Str(DEFAULT_UNIT_CODE))),
        invoicedQuantity |-> NumberToString(line.quantity.v),
        currencyID |-> currency,
        lineExtensionAmount |-> ToFixed(lineExtension, 2),
        description |-> Text(line.description),
        categoryID |-> lineTaxCategory(taxPercent, isVatPayer),
        percent |-> ToFixed(taxPercent.v, 2),
        taxSchemeID |-> VAT,
        priceAmount |-> ToFixed(roundedUnitPrice, 2)]

\* variant: the percent of a line is written with toString
invoiceLineXmlPercentToString(line, index, isVatPayer, currency) ==
    LET lineId == OrElse(OptToString(line.id), Str(NumberToString(Num(index + 1, 0))))
        lineExtension == calculateLineExtension(line)
        taxPercent == OrElse(line.taxPercent, Pos(0, 0))
        roundedUnitPrice == ParseFloat(ToFixed(line.unitPrice.v, 2))
    IN [tag |-> "cac:InvoiceLine",
        id |-> Text(lineId),
        unitCode |-> Text(OrElse(line.unitCode, Str(DEFAULT_UNIT_CODE))),
        invoicedQuantity |-> NumberToString(line.quantity.v),
        currencyID |-> currency,
        lineExtensionAmount |-> ToFixed(lineExtension, 2),
        description |-> Text(line.description),
        categoryID |-> lineTaxCategory(taxPercent, isVatPayer),
        percent |-> NumberToString(taxPercent.v),
        taxSchemeID |-> VAT,
        priceAmount |-> ToFixed(roundedUnitPrice, 2)]

\* one iteration of input.lines.forEach in buildInvoiceXml; index is 0-based
invoiceLineXml(line, index, isVatPayer, currency) ==
    LET lineId == OrElse(OptToString(line.id), Str(NumberToString(Num(index + 1, 0))))
        lineExtension == calculateLineExtension(line)
        taxPercent == OrElse(line.taxPercent, Pos(0, 0))
        roundedUnitPrice == ParseFloat(ToFixed(line.unitPrice.v, 2))
    IN [tag |-> "cac:InvoiceLine",
        id |-> Text(lineId),
        unitCode |-> Text(OrElse(line.unitCode, Str(DEFAULT_UNIT_CODE))),
        invoicedQuantity |-> NumberToString(line.quantity.v),
        currencyID |-> currency,
        lineExtensionAmount |-> ToFixed(lineExtension, 2),
        description |-> Text(line.description),
        categoryID |-> lineTaxCategory(taxPercent, isVatPayer),
        percent |-> ToFixed(taxPercent.v, 2),
        taxSchemeID |-> VAT,
        priceAmount |-> ToFixed(roundedUnitPrice, 2)]

-----------------------------------------------------------------------------
(* The inputs the model draws *)

MaxLines == 3
MaxDefects == 2

Present == [t |-> "object"]
Array(items) == [t |-> "array", items |-> items]

IsoDate == Str(<<"2", "0", "2", "4", "-", "0", "1", "-", "1", "5">>)

Line(id, description, quantity, unitPrice, taxPercent) ==
    [t |-> "object", id |-> id, description |-> description,
     quantity |-> quantity, unitCode |-> Undefined,
     unitPrice |-> unitPrice, taxPercent |-> taxPercent]

\* the lines of the calculation inputs: the rounding-law line (3 x 33.333333),
\* a line at another rate with a numeric id, a line with no tax percent and one
\* with tax percent 0 and a string id, and a fractional quantity whose price
\* 1.005 lies just below the rounding tie in binary; the ids are omitted, 7,
\* "", "A" and 0
LineKinds ==
    { Line(Undefined,     Str(<<"a">>), Pos(3, 0),  Pos(33333333, 6), Pos(19, 0)),
      Line(Pos(7, 0),     Str(<<"c">>), Pos(1, 0),  Pos(100, 0),      Pos(9, 0)),
      Line(Str(<<>>),     Str(<<"d">>), Pos(1, 0),  Pos(1, 1),        Undefined),
      Line(Str(<<"A">>),  Str(<<"e">>), Pos(1, 0),  Pos(2, 1),        Pos(0, 0)),
      Line(Pos(0, 0),     Str(<<"f">>), Pos(25, 1), Pos(1005, 3),     Pos(19, 0)) }

RECURSIVE SeqsUpTo(_, _)
SeqsUpTo(S, n) ==
    IF n = 0 THEN {<<>>}
    ELSE LET prev == SeqsUpTo(S, n - 1)
         IN prev \cup {Append(q, x) : q \in {p \in prev : Len(p) = n - 1}, x \in S}

\* the two lines of the inputs with defects
BaseLines ==
    << Line(Undefined, Str(<<"b">>), Pos(1, 0), Pos(100, 0), Pos(19, 0)),
       Line(Undefined, Str(<<"c">>), Pos(1, 0), Pos(100, 0), Pos(9, 0)) >>

Blank == Str(<<" ">>)
StringDefects(site) == {[site |-> site, val |-> Undefined], [site |-> site, val |-> Blank]}
Missing(site) == {[site |-> site, val |-> Undefined]}

PartyDefects(role) ==
    Missing(<<role>>)
    \cup StringDefects(<<role, "registrationName">>)
    \cup Missing(<<role, "companyId">>)
    \cup Missing(<<role, "address">>)
    \cup StringDefects(<<role, "address", "street">>)
    \cup Missing(<<role, "address", "city">>)
    \cup Missing(<<role, "address", "postalZone">>)

\* a line invalid in all four fields and one invalid in all but the description
InvalidLine == Line(Undefined, Blank, Pos(0, 0), Number(TRUE, 1, 0), Pos(101, 0))
InvalidAmounts == Line(Undefined, Str(<<"x">>), Str(<<"5">>), Number(TRUE, 1, 0), Pos(101, 0))

\* the defects of the first line field by field, of the later ones in less detail
LineDefects(l) ==
    {[site |-> <<"lines", ToString(l)>>, val |-> v] : v \in {InvalidLine, InvalidAmounts}}
    \cup Missing(<<"lines", ToString(l), "description">>)
    \cup {[site |-> <<"lines", ToString(l), "taxPercent">>, val |-> Pos(101, 0)]}
    \cup IF l > 1 THEN {}
         ELSE {[site |-> <<"lines", ToString(l), "description">>, val |-> Blank]}
              \cup {[site |-> <<"lines", ToString(l), "quantity">>, val |-> v] :
                      v \in {Str(<<"5">>), Pos(0, 0), Number(TRUE, 1, 0)}}
              \cup {[site |-> <<"lines", ToString(l), "unitPrice">>, val |-> v] :
                      v \in {Str(<<"5">>), Number(TRUE, 1, 0)}}
              \cup {[site |-> <<"lines", ToString(l), "taxPercent">>, val |-> v] :
                      v \in {Str(<<"5">>), Number(TRUE, 1, 0)}}

Defects ==
    Missing(<<"input">>)
    \cup StringDefects(<<"invoiceNumber">>)
    \cup Missing(<<"issueDate">>)
    \cup {[site |-> <<"issueDate">>, val |-> Str(<<"x">>)]}
    \cup PartyDefects("supplier")
    \cup PartyDefects("customer")
    \cup Missing(<<"lines">>)
    \cup UNION {LineDefects(l) : l \in 1..Len(BaseLines)}

\* the sets of at most n defects, no two at the same site
RECURSIVE DefectSets(_)
DefectSets(n) ==
    IF n = 0 THEN {{}}
    ELSE LET prev == DefectSets(n - 1)
         IN prev \cup UNION {{D \cup {d} : d \in {x \in Defects : \A y \in D : y.site # x.site}} :
                             D \in prev}

\* the value at a site: the defect placed there, or the sound value
At(D, site, sound) ==
    IF \E d \in D : d.site = site
    THEN (CHOOSE d \in D : d.site = site).val
    ELSE sound

AddressOf(D, role) ==
    IF At(D, <<role, "address">>, Present) = Undefined THEN Undefined
    ELSE [t |-> "object",
          street     |-> At(D, <<role, "address", "street">>, Str(<<"s">>)),
          city       |-> At(D, <<role, "address", "city">>, Str(<<"c">>)),
          postalZone |-> At(D, <<role, "address", "postalZone">>, Str(<<"1">>)),
          county     |-> Undefined,
          countryCode |-> Undefined]

PartyOf(D, role, name, vatNumber) ==
    IF At(D, <<role>>, Present) = Undefined THEN Undefined
    ELSE [t |-> "object",
          registrationName |-> At(D, <<role, "registrationName">>, Str(name)),
          companyId        |-> At(D, <<role, "companyId">>, Str(<<"1">>)),
          vatNumber        |-> vatNumber,
          address          |-> AddressOf(D, role)]

LineOf(D, l, line) ==
    LET whole == At(D, <<"lines", ToString(l)>>, line)
    IN [whole EXCEPT
          !.description = At(D, <<"lines", ToString(l), "description">>, whole.description),
          !.quantity    = At(D, <<"lines", ToString(l), "quantity">>, whole.quantity),
          !.unitPrice   = At(D, <<"lines", ToString(l), "unitPrice">>, whole.unitPrice),
          !.taxPercent  = At(D, <<"lines", ToString(l), "taxPercent">>, whole.taxPercent)]

\* the invoice input with the defects D, the given lines and VAT settings
InputOf(D, lines, vatNumber, isSupplierVatPayer) ==
    IF At(D, <<"input">>, Present) = Undefined THEN Undefined
    ELSE [t |-> "object",
          invoiceNumber |-> At(D, <<"invoiceNumber">>, Str(<<"N", "1">>)),
          issueDate     |-> At(D, <<"issueDate">>, IsoDate),
          dueDate       |-> Undefined,
          currency      |-> Undefined,
          supplier      |-> PartyOf(D, "supplier", <<"S">>, vatNumber),
          customer      |-> PartyOf(D, "customer", <<"C">>, Undefined),
          lines         |-> IF At(D, <<"lines">>, Present) = Undefined THEN Undefined
                            ELSE Array([l \in 1..Len(lines) |-> LineOf(D, l, lines[l])]),
          paymentIban   |-> Undefined,
          isSupplierVatPayer |-> isSupplierVatPayer]

\* the VAT settings: the flag omitted with and without a supplier VAT
\* number, and the flag given against what the VAT number suggests
VatSettings ==
    { [vatNumber |-> Undefined,               flag |-> Undefined],
      [vatNumber |-> Str(<<"R", "O", "1">>),  flag |-> Undefined],
      [vatNumber |-> Undefined,               flag |-> Bool(TRUE)],
      [vatNumber |-> Str(<<"R", "O", "1">>),  flag |-> Bool(FALSE)] }

\* sound inputs: every sequence of at most MaxLines line kinds under every
\* VAT setting
CalcInputs ==
    {InputOf({}, lines, vat.vatNumber, vat.flag) :
        lines \in SeqsUpTo(LineKinds, MaxLines), vat \in VatSettings}

\* inputs with up to MaxDefects defects
DefectInputs ==
    {InputOf(D, BaseLines, Str(<<"R", "O", "1">>), Undefined) : D \in DefectSets(MaxDefects)}

Inputs == CalcInputs \cup DefectInputs

\* lines whose fields lie on, next to and beyond the bounds validateLine
\* draws, NaN among the numbers
BoundLines ==
    {Line(Undefined, description, quantity, unitPrice, taxPercent) :
        description \in {Blank, Str(<<"x">>)},
        quantity \in {NaNValue, Pos(0, 0), Number(TRUE, 1, 0), Pos(1, 2), Str(<<"5">>)},
        unitPrice \in {NaNValue, Number(TRUE, 1, 2), Pos(0, 0), Pos(1, 0)},
        taxPercent \in {Undefined, NaNValue, Number(TRUE, 1, 2), Pos(0, 0),
                        Pos(100, 0), Pos(10001, 2), Str(<<"5">>)}}

\* how many calls a run of several calls makes
MaxCalls == 3

\* the inputs of the runs of several calls: one line, two lines of one group
\* and a third of another, no line, and an input that fails validation
CallInputs ==
    LET a == Line(Undefined, Str(<<"a">>), Pos(3, 0), Pos(33333333, 6), Pos(19, 0))
        c == Line(Pos(7, 0), Str(<<"c">>), Pos(1, 0), Pos(100, 0), Pos(9, 0))
    IN {InputOf({}, lines, Str(<<"R", "O", "1">>), Undefined) : lines \in {<<a>>, <<a, c, a>>, <<>>}}
       \cup {InputOf(Missing(<<"invoiceNumber">>), <<a>>, Str(<<"R", "O", "1">>), Undefined)}

\* inputs sound but for one such line, alone or after a sound line
BoundInputs ==
    {InputOf({}, lines, Str(<<"R", "O", "1">>), Undefined) :
        lines \in {<<l>> : l \in BoundLines} \cup {<<BaseLines[1], l>> : l \in BoundLines}}

-----------------------------------------------------------------------------
(* UblBuilder.generateInvoiceXml(invoiceData): one call, step by step.      *)
(*   pc           where the call is                                         *)
(*   input        invoiceData                                               *)
(*   thrown       the error thrown inside buildInvoiceXml (tryCatch's error)*)
(*   currency, isSupplierVatPayer, issueDate, dueDate, taxGroups,           *)
(*   totalTaxableAmount, totalTaxAmount, grandTotal                         *)
(*                the locals of buildInvoiceXml                             *)
(*   index        the forEach index of the loop being run                   *)
(*   root         the children appended to the <Invoice> element so far     *)
(*   result       what the call returned (the document) or threw            *)
(*   history      the calls made before this one: their inputs and results  *)

VARIABLES pc, input, thrown, currency, isSupplierVatPayer, issueDate, dueDate,
          taxGroups, index, totalTaxableAmount, totalTaxAmount, grandTotal,
          root, result, history

(* The state of an AnafEfacturaClient and of the calls made on it:         *)
(*   now                   what Date.now() returns, in milliseconds         *)
(*   currentAccessToken, accessTokenExpiresAt, refreshToken                 *)
(*                         the fields of the client                         *)
(*   calls                 for each caller, where its API call stands, the  *)
(*                         token it obtained and what isTokenValid saw      *)
(*   refreshRequests       the refresh requests made to the authenticator   *)

VARIABLES now, currentAccessToken, accessTokenExpiresAt, refreshToken, calls,
          refreshRequests

client == <<now, currentAccessToken, accessTokenExpiresAt, refreshToken, calls,
            refreshRequests>>

(* The state of a manual-token AnafEfacturaClient.uploadDocument call and   *)
(* of the HttpClient.request it makes:                                      *)
(*   http                  where the call stands, its arguments, the abort   *)
(*                         timer, the fetches made, and how the promise of   *)
(*                         request and the promise of the method settled     *)
(* The state of an AnafDetailsClient:                                       *)
(*   config                its configuration (enableCache, cacheTtl)         *)
(*   cache                 its Map from cache keys to {data, timestamp}      *)
(*   lookups               the getCompanyData calls in flight                *)
(*   batch                 the batchGetCompanyData call and its loop index   *)

VARIABLES http, config, cache, lookups, batch

details == <<config, cache, lookups, batch>>

vars == <<pc, input, thrown, currency, isSupplierVatPayer, issueDate, dueDate,
          taxGroups, index, totalTaxableAmount, totalTaxAmount, grandTotal,
          root, result, history, client, http, details>>

\* what lies outside a call of the builder
outside == <<history, client, http, details>>

locals == <<currency, isSupplierVatPayer, issueDate, dueDate>>
totals == <<totalTaxableAmount, totalTaxAmount, grandTotal>>

\* Bounds of the client: the callers with a call in flight at once, the
\* steps the clock makes, the refresh requests the authenticator answers,
\* the clock's first value and the length of its step in milliseconds
MaxCallers == 2
MaxTicks == 2
MaxRefreshes == 2
StartTime == 1000000
TickMs == 500

Callers == 1..MaxCallers

\* a whole JS number (of seconds or milliseconds), and the NaN an invalid
\* date or a missing expires_in gives; the whole numbers the client computes
\* with are far below 2^53, where the arithmetic of doubles is exact
Whole(n) == [t |-> "whole", n |-> n]
WholeNaN == [t |-> "whole-nan"]

\* a + b, a - b, a * b and a < b on these numbers; undefined converts to NaN
WholeAdd(a, b) == IF a.t = "whole" /\ b.t = "whole" THEN Whole(a.n + b.n) ELSE WholeNaN
WholeSub(a, b) == IF a.t = "whole" /\ b.t = "whole" THEN Whole(a.n - b.n) ELSE WholeNaN
WholeMul(a, b) == IF a.t = "whole" /\ b.t = "whole" THEN Whole(a.n * b.n) ELSE WholeNaN
WholeLess(a, b) == a.t = "whole" /\ b.t = "whole" /\ a.n < b.n

\* the access token the authenticator returns to its k-th refresh request
IssuedToken(k) == Str(<<"T", ToString(k)>>)

\* the refresh token the client is constructed with, and the one a token
\* response may carry
ConfigRefreshToken == Str(<<"R", "0">>)
RotatedRefreshToken == Str(<<"R", "1">>)

\* a caller with no API call in flight
Idle == [pc |-> "idle", token |-> Undefined, refreshed |-> FALSE, request |-> 0,
         seen |-> [token |-> Undefined, expiresAt |-> Undefined, at |-> 0],
         error |-> NoError]

\* the client after its constructor: no access token, no expiry, the
\* refresh token of the configuration
ClientConstructed ==
    /\ now = StartTime
    /\ currentAccessToken = Undefined
    /\ accessTokenExpiresAt = Undefined
    /\ refreshToken = ConfigRefreshToken
    /\ calls = [c \in Callers |-> Idle]
    /\ refreshRequests = 0

NoResult == [kind |-> "none"]

\* no promise settled yet
Pending == [kind |-> "pending"]

\* the manual-token client after its constructor, no call made
HttpIdle == [pc |-> "idle", args |-> <<>>, timer |-> "none", fetches |-> 0,
             status |-> 0, request |-> Pending, outcome |-> Pending]

\* DEFAULT_CONFIG of AnafDetailsClient
DEFAULT_CONFIG == [timeout |-> Whole(30000), enableCache |-> TRUE, cacheTtl |-> Whole(300000)]

\* Bounds of the details client: the getCompanyData calls in flight at once
MaxLookups == 2

Lookups == 1..MaxLookups

\* a Map with no entry
EmptyMap == [k \in {} |-> Undefined]

\* no getCompanyData call in this place
NoLookup == [pc |-> "idle"]

\* no batchGetCompanyData call made
NoBatch == [pc |-> "idle"]

\* an AnafDetailsClient after its constructor, with one of the given
\* configurations
DetailsConstructed(configs) ==
    /\ config \in configs
    /\ cache = EmptyMap
    /\ lookups = [l \in Lookups |-> NoLookup]
    /\ batch = NoBatch

\* a call of the builder with an input of the given set, about to start
BuilderStart(inputs) ==
    /\ input \in inputs
    /\ pc = "validate"
    /\ thrown = NoError
    /\ currency = <<>>
    /\ isSupplierVatPayer = Undefined
    /\ issueDate = <<>>
    /\ dueDate = <<>>
    /\ taxGroups = <<>>
    /\ index = 0
    /\ totalTaxableAmount = Zero
    /\ totalTaxAmount = Zero
    /\ grandTotal = Zero
    /\ root = <<>>
    /\ result = NoResult
    /\ history = <<>>

\* a call with an input of the given set, about to start, beside clients
\* just constructed
Start(inputs) ==
    /\ BuilderStart(inputs)
    /\ ClientConstructed
    /\ http = HttpIdle
    /\ DetailsConstructed({DEFAULT_CONFIG})

Init == Start(Inputs)
InitBounds == Start(BoundInputs)
InitCalls == Start(CallInputs)

\* validateInvoiceInput(input)
Validate ==
    /\ pc = "validate"
    /\ LET e == validateInvoiceInput(input)
       IN IF e # NoError
          THEN thrown' = e /\ pc' = "caught"
          ELSE thrown' = thrown /\ pc' = "defaults"
    /\ UNCHANGED <<outside, input, locals, taxGroups, index, totals, root, result>>

\* variant: the flag is defaulted with || instead of ??
SetDefaultsOrVatNumber ==
    /\ pc = "defaults"
    /\ LET issue == formatDateForAnaf(input.issueDate)
           due   == IF Truthy(input.dueDate) THEN formatDateForAnaf(input.dueDate)
                    ELSE issue
       IN /\ currency' = Text(OrElse(input.currency, Str(DEFAULT_CURRENCY)))
          /\ isSupplierVatPayer' =
                 IF Truthy(input.isSupplierVatPayer) THEN input.isSupplierVatPayer
                 ELSE Bool(Truthy(input.supplier.vatNumber))
          /\ IF issue.error # NoError
             THEN /\ thrown' = issue.error /\ pc' = "caught"
                  /\ UNCHANGED <<issueDate, dueDate>>
             ELSE IF due.error # NoError
             THEN /\ thrown' = due.error /\ pc' = "caught"
                  /\ issueDate' = issue.value /\ dueDate' = dueDate
             ELSE /\ thrown' = thrown
                  /\ issueDate' = issue.value /\ dueDate' = due.value
                  /\ pc' = IF Len(input.lines.items) > 0 THEN "group" ELSE "totals"
    /\ index' = 0
    /\ UNCHANGED <<outside, input, taxGroups, totals, root, result>>

\* set defaults, format dates
SetDefaults ==
    /\ pc = "defaults"
    /\ LET issue == formatDateForAnaf(input.issueDate)
           due   == IF Truthy(input.dueDate) THEN formatDateForAnaf(input.dueDate)
                    ELSE issue
       IN /\ currency' = Text(OrElse(input.currency, Str(DEFAULT_CURRENCY)))
          /\ isSupplierVatPayer' =
                 IF input.isSupplierVatPayer # Undefined THEN input.isSupplierVatPayer
                 ELSE Bool(Truthy(input.supplier.vatNumber))
          /\ IF issue.error # NoError
             THEN /\ thrown' = issue.error /\ pc' = "caught"
                  /\ UNCHANGED <<issueDate, dueDate>>
             ELSE IF due.error # NoError
             THEN /\ thrown' = due.error /\ pc' = "caught"
                  /\ issueDate' = issue.value /\ dueDate' = dueDate
             ELSE /\ thrown' = thrown
                  /\ issueDate' = issue.value /\ dueDate' = due.value
                  /\ pc' = IF Len(input.lines.items) > 0 THEN "group" ELSE "totals"
    /\ index' = 0
    /\ UNCHANGED <<outside, input, taxGroups, totals, root, result>>

\* groupLinesByTax: one iteration of lines.forEach
GroupLine ==
    /\ pc = "group"
    /\ index < Len(input.lines.items)
    /\ taxGroups' = groupLine(taxGroups, input.lines.items[index + 1], isSupplierVatPayer)
    /\ index' = index + 1
    /\ pc' = IF index + 1 = Len(input.lines.items) THEN "totals" ELSE "group"
    /\ UNCHANGED <<outside, input, thrown, locals, totals, root, result>>

\* totalTaxableAmount, totalTaxAmount, grandTotal
ComputeTotals ==
    /\ pc = "totals"
    /\ LET groups == MapValues(taxGroups)
       IN /\ totalTaxableAmount' = sumTaxable(groups)
          /\ totalTaxAmount' = sumTax(groups)
          /\ grandTotal' = grandTotalOf(sumTaxable(groups), sumTax(groups))
    /\ pc' = "header"
    /\ UNCHANGED <<outside, input, thrown, locals, taxGroups, index, root, result>>

\* invoice header, parties, payment means
BuildHeader ==
    /\ pc = "header"
    /\ root' = headerXml(input, currency, issueDate, dueDate)
                 \o <<buildPartyXml("cac:AccountingSupplierParty", input.supplier),
                      buildPartyXml("cac:AccountingCustomerParty", input.customer)>>
                 \o paymentMeansXml(input)
    /\ pc' = "taxTotal"
    /\ UNCHANGED <<outside, input, thrown, locals, taxGroups, index, totals, result>>

\* tax total with a subtotal for each tax group
BuildTaxTotal ==
    /\ pc = "taxTotal"
    /\ root' = Append(root, taxTotalXml(MapValues(taxGroups), totalTaxAmount, currency))
    /\ pc' = "monetaryTotal"
    /\ UNCHANGED <<outside, input, thrown, locals, taxGroups, index, totals, result>>

\* legal monetary total
BuildLegalMonetaryTotal ==
    /\ pc = "monetaryTotal"
    /\ root' = Append(root, legalMonetaryTotalXml(totalTaxableAmount, grandTotal, currency))
    /\ index' = 0
    /\ pc' = IF Len(input.lines.items) > 0 THEN "lines" ELSE "end"
    /\ UNCHANGED <<outside, input, thrown, locals, taxGroups, totals, result>>

\* invoice lines: one iteration of input.lines.forEach
BuildInvoiceLine ==
    /\ pc = "lines"
    /\ index < Len(input.lines.items)
    /\ root' = Append(root, invoiceLineXml(input.lines.items[index + 1], index,
                                           isSupplierVatPayer, currency))
    /\ index' = index + 1
    /\ pc' = IF index + 1 = Len(input.lines.items) THEN "end" ELSE "lines"
    /\ UNCHANGED <<outside, input, thrown, locals, taxGroups, totals, result>>

\* return root.end(...); tryCatch returns {data, error: null}; the document
\* is returned to the caller
Return ==
    /\ pc = "end"
    /\ result' = [kind |-> "returned", document |-> root]
    /\ pc' = "done"
    /\ UNCHANGED <<outside, input, thrown, locals, taxGroups, index, totals, root>>

\* variant: the error caught is thrown again as it is
RethrowRaw ==
    /\ pc = "caught"
    /\ result' = [kind |-> "threw", error |-> thrown]
    /\ pc' = "done"
    /\ UNCHANGED <<outside, input, thrown, locals, taxGroups, index, totals, root>>

\* tryCatch returns {data: null, error}; generateInvoiceXml throws
\* AnafValidationError(`Failed to generate invoice XML: ${error.message}`)
Rethrow ==
    /\ pc = "caught"
    /\ result' = [kind |-> "threw",
                  error |-> AnafValidationError(
                      <<"Failed to generate invoice XML: ">> \o thrown.message)]
    /\ pc' = "done"
    /\ UNCHANGED <<outside, input, thrown, locals, taxGroups, index, totals, root>>

\* variant: the Map of tax groups is created once, not in every call
NextCallSharedGroups ==
    /\ pc = "done"
    /\ Len(history) < MaxCalls - 1
    /\ history' = Append(history, [input |-> input, result |-> result])
    /\ input' \in CallInputs
    /\ pc' = "validate"
    /\ thrown' = NoError
    /\ currency' = <<>>
    /\ isSupplierVatPayer' = Undefined
    /\ issueDate' = <<>>
    /\ dueDate' = <<>>
    /\ taxGroups' = taxGroups
    /\ index' = 0
    /\ totalTaxableAmount' = Zero
    /\ totalTaxAmount' = Zero
    /\ grandTotal' = Zero
    /\ root' = <<>>
    /\ result' = NoResult
    /\ UNCHANGED <<client, http, details>>

\* a caller calls generateInvoiceXml after the call before has ended (the
\* calls are synchronous: each runs to its end before the next starts); the
\* new call has its own locals, a new Map of tax groups and a new document
NextCall ==
    /\ pc = "done"
    /\ Len(history) < MaxCalls - 1
    /\ history' = Append(history, [input |-> input, result |-> result])
    /\ input' \in CallInputs
    /\ pc' = "validate"
    /\ thrown' = NoError
    /\ currency' = <<>>
    /\ isSupplierVatPayer' = Undefined
    /\ issueDate' = <<>>
    /\ dueDate' = <<>>
    /\ taxGroups' = <<>>
    /\ index' = 0
    /\ totalTaxableAmount' = Zero
    /\ totalTaxAmount' = Zero
    /\ grandTotal' = Zero
    /\ root' = <<>>
    /\ result' = NoResult
    /\ UNCHANGED <<client, http, details>>

Next ==
    \/ Validate
    \/ SetDefaults
    \/ GroupLine
    \/ ComputeTotals
    \/ BuildHeader
    \/ BuildTaxTotal
    \/ BuildLegalMonetaryTotal
    \/ BuildInvoiceLine
    \/ Return
    \/ Rethrow

Spec == Init /\ [][Next]_vars

\* the same call on the inputs at the validation bounds
SpecBounds == InitBounds /\ [][Next]_vars

\* up to MaxCalls calls, one after the other
NextCalls == Next \/ NextCall
SpecCalls == InitCalls /\ [][NextCalls]_vars

-----------------------------------------------------------------------------
(* The auto-token client (AnafClient.js): every API method obtains its      *)
(* access token from getValidAccessToken before it sends its request. An    *)
(* action is what runs between two awaits.                                  *)

builder == <<pc, input, thrown, locals, taxGroups, index, totals, root, result,
             history>>

\* the default of isTokenValid's parameter, in seconds
DefaultBuffer == 30

\* variant: the token counts as valid up to its expiry, without the buffer
isTokenValidNoBuffer(buffer) ==
    IF ~Truthy(currentAccessToken) \/ ~Truthy(accessTokenExpiresAt) THEN FALSE
    ELSE WholeLess(Whole(now), accessTokenExpiresAt)

isTokenValid(buffer) ==
    IF ~Truthy(currentAccessToken) \/ ~Truthy(accessTokenExpiresAt) THEN FALSE
    ELSE WholeLess(Whole(now), WholeSub(accessTokenExpiresAt, WholeMul(buffer, Whole(1000))))

\* new Date(x).getTime(): the time of a valid date, NaN of any other
DateGetTime(x) == IF x.t = "whole" THEN x ELSE WholeNaN

\* the arguments setAccessToken is called with: an empty token, an
\* invalid date, the date of time 0, a date more than the buffer ahead
SetArguments ==
    LET ahead == Whole(StartTime + DefaultBuffer * 1000 + 2 * TickMs)
    IN {<<Str(<<>>), ahead>>, <<Str(<<"U">>), Undefined>>, <<Str(<<"U">>), Whole(0)>>,
        <<Str(<<"U">>), ahead>>}

\* what a token response carries besides its access token (the
\* authenticator rejects a response without one)
ResponseExpiresIn == {Undefined, Whole(DefaultBuffer), Whole(DefaultBuffer + 1)}
ResponseRefreshTokens == {Undefined, RotatedRefreshToken}

\* time passes
Tick ==
    /\ now < StartTime + MaxTicks * TickMs
    /\ now' = now + TickMs
    /\ UNCHANGED <<builder, http, details, currentAccessToken, accessTokenExpiresAt, refreshToken,
                   calls, refreshRequests>>

\* the user stores a token of their own
SetAccessToken ==
    \E arguments \in SetArguments :
        /\ currentAccessToken' = arguments[1]
        /\ accessTokenExpiresAt' = DateGetTime(arguments[2])
        /\ UNCHANGED <<builder, http, details, now, refreshToken, calls, refreshRequests>>

\* a caller calls an API method, which runs up to its first pending await:
\* getValidAccessToken returns the stored token if isTokenValid, and calls
\* refreshAccessToken, which sends the refresh request, if not
ApiCall(c) ==
    /\ calls[c].pc = "idle"
    /\ LET seen == [token |-> currentAccessToken, expiresAt |-> accessTokenExpiresAt,
                     at |-> now]
       IN IF isTokenValid(Whole(DefaultBuffer))
          THEN /\ calls' = [calls EXCEPT ![c] =
                      [pc |-> "token", token |-> currentAccessToken,
                       refreshed |-> FALSE, request |-> 0, seen |-> seen,
                       error |-> NoError]]
               /\ UNCHANGED refreshRequests
          ELSE /\ refreshRequests < MaxRefreshes
               /\ refreshRequests' = refreshRequests + 1
               /\ calls' = [calls EXCEPT ![c] =
                      [pc |-> "refreshing", token |-> Undefined,
                       refreshed |-> TRUE, request |-> refreshRequests + 1,
                       seen |-> seen, error |-> NoError]]
    /\ UNCHANGED <<builder, http, details, now, currentAccessToken, accessTokenExpiresAt, refreshToken>>

\* the authenticator's answer arrives: refreshAccessToken stores the token,
\* its expiry and the refresh token if the response carries one
RefreshSucceeds(c) ==
    /\ calls[c].pc = "refreshing"
    /\ \E expires_in \in ResponseExpiresIn, refresh_token \in ResponseRefreshTokens :
        /\ currentAccessToken' = IssuedToken(calls[c].request)
        /\ accessTokenExpiresAt' = WholeAdd(Whole(now), WholeMul(expires_in, Whole(1000)))
        /\ refreshToken' = IF Truthy(refresh_token) THEN refresh_token ELSE refreshToken
    /\ calls' = [calls EXCEPT ![c].pc = "refreshed"]
    /\ UNCHANGED <<builder, http, details, now, refreshRequests>>

\* what the authenticator rejects with: an Error with a message, or a value
\* that is no Error
RefreshFailures ==
    {Error(<<"Token response missing access token">>), [name |-> "none", message |-> <<"x">>]}

\* the error refreshAccessToken throws from its catch block
RefreshError(failure) ==
    AnafAuthenticationError(<<"Failed to refresh access token: ">> \o
        (IF failure.name # "none" THEN failure.message ELSE <<"Unknown error">>))

\* variant: a failed refresh forgets the stored access token
RefreshFailsClearingToken(c) ==
    /\ calls[c].pc = "refreshing"
    /\ \E failure \in RefreshFailures :
        calls' = [calls EXCEPT ![c].pc = "rejected",
                               ![c].error = RefreshError(failure)]
    /\ currentAccessToken' = Undefined
    /\ UNCHANGED <<builder, http, details, now, accessTokenExpiresAt, refreshToken, refreshRequests>>

\* the authenticator rejects: refreshAccessToken throws
\* AnafAuthenticationError and the API method rejects with it
RefreshFails(c) ==
    /\ calls[c].pc = "refreshing"
    /\ \E failure \in RefreshFailures :
        calls' = [calls EXCEPT ![c].pc = "rejected",
                               ![c].error = RefreshError(failure)]
    /\ UNCHANGED <<builder, http, details, now, currentAccessToken, accessTokenExpiresAt, refreshToken,
                   refreshRequests>>

\* getValidAccessToken resumes after the refresh and returns the token
\* stored by then
ReturnRefreshedToken(c) ==
    /\ calls[c].pc = "refreshed"
    /\ calls' = [calls EXCEPT ![c].pc = "token", ![c].token = currentAccessToken]
    /\ UNCHANGED <<builder, http, details, now, currentAccessToken, accessTokenExpiresAt, refreshToken,
                   refreshRequests>>

\* the API method resumes with the token and sends its request with the
\* header Authorization: Bearer <token>
SendRequest(c) ==
    /\ calls[c].pc = "token"
    /\ calls' = [calls EXCEPT ![c].pc = "sent"]
    /\ UNCHANGED <<builder, http, details, now, currentAccessToken, accessTokenExpiresAt, refreshToken,
                   refreshRequests>>

\* the call ends, with the response to its request or with the rejection
Settle(c) ==
    /\ calls[c].pc \in {"sent", "rejected"}
    /\ calls' = [calls EXCEPT ![c] = Idle]
    /\ UNCHANGED <<builder, http, details, now, currentAccessToken, accessTokenExpiresAt, refreshToken,
                   refreshRequests>>

NextClient ==
    \/ Tick
    \/ SetAccessToken
    \/ \E c \in Callers : ApiCall(c)
    \/ \E c \in Callers : RefreshSucceeds(c)
    \/ \E c \in Callers : RefreshFails(c)
    \/ \E c \in Callers : ReturnRefreshedToken(c)
    \/ \E c \in Callers : SendRequest(c)
    \/ \E c \in Callers : Settle(c)

\* the client alone; the builder, which it does not call, stays as it starts
InitClient == Start({InputOf({}, <<>>, Str(<<"R", "O", "1">>), Undefined)})
SpecClient == InitClient /\ [][NextClient]_vars

-----------------------------------------------------------------------------
(* The manual-token client (AnafClient.ts): uploadDocument(accessToken,      *)
(* xmlContent, options) validates its arguments and posts the document       *)
(* through HttpClient.request (utils/httpClient.ts), which arms an abort     *)
(* timer, calls fetch and maps the response. An action is what runs between  *)
(* two awaits.                                                               *)

besidesHttp == <<builder, client, details>>

\* how a promise settled
Resolved(value) == [kind |-> "resolved", value |-> value]
Rejected(error) == [kind |-> "rejected", error |-> error]

\* the error classes of the SDK, and the errors fetch and the body readers
\* reject with
AnafSdkError(message) == [name |-> "AnafSdkError", message |-> message]
AnafApiError(message, statusCode) ==
    [name |-> "AnafApiError", message |-> message, statusCode |-> statusCode]
AnafXmlParsingError(message) == [name |-> "AnafXmlParsingError", message |-> message]
TypeError(message) == [name |-> "TypeError", message |-> message]
AbortError == [name |-> "AbortError", message |-> <<"This operation was aborted">>]

\* error instanceof AnafSdkError
InstanceOfAnafSdkError(error) ==
    error.name \in {"AnafSdkError", "AnafValidationError", "AnafAuthenticationError",
                    "AnafApiError", "AnafXmlParsingError"}

\* tryCatch(fn) for a function: it calls fn and returns what fn returns as
\* data, or what fn throws as error. An async function throws nothing, it
\* returns its promise: data is that promise, however it settles later
tryCatch(call) ==
    IF call.kind = "threw" THEN [data |-> Undefined, error |-> call.error]
    ELSE [data |-> call, error |-> NoError]

\* what validateAccessToken, validateXmlContent and validateUploadOptions
\* throw for the arguments, in this order
UploadStandards == {<<"U", "B", "L">>, <<"C", "N">>, <<"C", "I", "I">>, <<"R", "A", "S", "P">>}

\* variant: the options are not validated
validateUploadWithoutOptions(args) ==
    IF ~Truthy(OptTrim(args.accessToken))
    THEN AnafValidationError(<<"Access token is required">>)
    ELSE IF ~Truthy(OptTrim(args.xmlContent))
    THEN AnafValidationError(<<"XML content is required">>)
    ELSE NoError

validateUpload(args) ==
    IF ~Truthy(OptTrim(args.accessToken))
    THEN AnafValidationError(<<"Access token is required">>)
    ELSE IF ~Truthy(OptTrim(args.xmlContent))
    THEN AnafValidationError(<<"XML content is required">>)
    ELSE IF Truthy(args.standard) /\ args.standard.s \notin UploadStandards
    THEN AnafValidationError(<<"Standard must be one of: UBL, CN, CII, RASP">>)
    ELSE NoError

\* variant: 403 is not told from the other client errors
handleHttpErrorOnly401(status, statusText, errorText) ==
    LET message == <<"HTTP ", ToString(status), ": ", statusText>> \o
                   (IF errorText # <<>> THEN <<" - ", errorText>> ELSE <<>>)
    IN IF status = 401 THEN AnafAuthenticationError(message)
       ELSE IF status >= 400 /\ status < 500 THEN AnafValidationError(message)
       ELSE AnafApiError(message, Whole(status))

\* the error handleHttpError throws
handleHttpError(status, statusText, errorText) ==
    LET message == <<"HTTP ", ToString(status), ": ", statusText>> \o
                   (IF errorText # <<>> THEN <<" - ", errorText>> ELSE <<>>)
    IN IF status = 401 \/ status = 403 THEN AnafAuthenticationError(message)
       ELSE IF status >= 400 /\ status < 500 THEN AnafValidationError(message)
       ELSE AnafApiError(message, Whole(status))

\* the end of request, after tryCatch has returned {data, error}: what the
\* promise of request settles to and what becomes of the timer
requestEnd(r, timer) ==
    IF r.error # NoError
    THEN [timer |-> IF timer = "pending" THEN "cleared" ELSE timer,
          settled |->
             Rejected(IF r.error.name = "AbortError"
                      THEN AnafApiError(<<"Request timeout">>, Undefined)
                      ELSE IF r.error.name \in {"AnafApiError", "AnafAuthenticationError",
                                                "AnafValidationError"}
                      THEN r.error
                      ELSE AnafApiError(<<"Network error: ">> \o
                               (IF r.error.message # <<>> THEN r.error.message
                                ELSE <<"Unknown error">>), Undefined))]
    ELSE [timer |-> timer, settled |-> r.data]

\* the error handleApiError throws
handleApiError(error, context) ==
    IF InstanceOfAnafSdkError(error) THEN error
    ELSE AnafSdkError(<<context, ": ">> \o
             (IF error.message # <<>> THEN error.message ELSE <<"Unknown error">>))

\* the end of uploadDocument, after tryCatch has returned {data, error}
uploadEnd(r) ==
    IF r.error # NoError
    THEN Rejected(handleApiError(r.error, "Failed to upload document"))
    ELSE r.data

\* the async function uploadDocument gives to tryCatch, once the promise of
\* post has settled: parseXmlResponse on the body, or the rejection of post
uploadBody(posted, parses) ==
    IF posted.kind = "rejected" THEN posted
    ELSE IF parses THEN Resolved(posted.value)
    ELSE Rejected(AnafXmlParsingError(<<"Failed to parse XML response">>))

\* request and the method settle together: the inner async function of
\* request has settled as given
Settled(inner, parses) ==
    LET ended == requestEnd(tryCatch(inner), http.timer)
    IN [http EXCEPT !.pc = "settled", !.timer = ended.timer, !.request = ended.settled,
                    !.outcome = uploadEnd(tryCatch(uploadBody(ended.settled, parses)))]

\* the arguments uploadDocument is called with
UploadArguments ==
    [accessToken : {Str(<<>>), Str(<<" ", " ">>), Str(<<"t">>)},
     xmlContent : {Str(<<>>), Str(<<" ">>), Str(<<"<", "/", ">">>)},
     standard : {Undefined, Str(<<>>), Str(<<"U", "B", "L">>), Str(<<"C", "N">>),
                 Str(<<"u", "b", "l">>), Str(<<"I", "N", "V", "A", "L", "I", "D">>)}]

\* the statuses of the responses fetch resolves with, response.ok for those
\* in 200..299, and the texts of an error body (response.text() failing
\* gives 'Unknown error')
Statuses == {200, 204, 304, 400, 401, 403, 404, 499, 500, 503}
Ok(status) == status >= 200 /\ status <= 299
ErrorTexts == {<<>>, <<"Invalid token">>, <<"Unknown error">>}

\* uploadDocument is called: it validates, and if nothing is thrown post
\* and request run up to the await of fetch, the timer armed
UploadCall ==
    /\ http.pc = "idle"
    /\ \E args \in UploadArguments :
        LET invalid == validateUpload(args)
        IN http' = IF invalid # NoError
                   THEN [http EXCEPT !.pc = "settled", !.args = args,
                                     !.outcome = Rejected(invalid)]
                   ELSE [http EXCEPT !.pc = "fetching", !.args = args,
                                     !.timer = "pending", !.fetches = @ + 1]
    /\ UNCHANGED besidesHttp

\* the timer runs out: controller.abort()
TimerFires ==
    /\ http.timer = "pending"
    /\ http' = [http EXCEPT !.timer = "fired"]
    /\ UNCHANGED besidesHttp

\* fetch resolves with a response: clearTimeout, then the body is read
FetchResponds ==
    /\ http.pc = "fetching"
    /\ http.timer = "pending"
    /\ \E status \in Statuses :
        http' = [http EXCEPT !.pc = IF Ok(status) THEN "parsing" ELSE "failing",
                             !.status = status, !.timer = "cleared"]
    /\ UNCHANGED besidesHttp

\* fetch rejects: the network failed, or the signal was aborted
FetchRejects ==
    /\ http.pc = "fetching"
    /\ http' = Settled(Rejected(IF http.timer = "fired" THEN AbortError
                                ELSE TypeError(<<"fetch failed">>)), TRUE)
    /\ UNCHANGED besidesHttp

\* the text of a non-OK response has been read: handleHttpError throws
ErrorTextRead ==
    /\ http.pc = "failing"
    /\ \E errorText \in ErrorTexts :
        http' = Settled(Rejected(handleHttpError(http.status, <<"Status">>, errorText)), TRUE)
    /\ UNCHANGED besidesHttp

\* parseResponse has read the body of an OK response, or its reader has
\* rejected; parseXmlResponse then accepts the body or throws
BodyRead ==
    /\ http.pc = "parsing"
    /\ \E inner \in {Resolved(Whole(http.status)),
                      Rejected(TypeError(<<"terminated">>))},
          parses \in BOOLEAN :
        http' = Settled(inner, parses)
    /\ UNCHANGED besidesHttp

\* the caller has its answer and makes no further call with it
UploadEnds ==
    /\ http.pc = "settled"
    /\ http.timer # "pending"
    /\ http' = HttpIdle
    /\ UNCHANGED besidesHttp

NextHttp ==
    \/ UploadCall
    \/ TimerFires
    \/ FetchResponds
    \/ FetchRejects
    \/ ErrorTextRead
    \/ BodyRead
    \/ UploadEnds

InitHttp == Start({InputOf({}, <<>>, Str(<<"R", "O", "1">>), Undefined)})
SpecHttp == InitHttp /\ [][NextHttp]_vars

-----------------------------------------------------------------------------
(* AnafDetailsClient (AnafDetailsClient.ts): getCompanyData looks a company *)
(* up by its VAT code, in its cache first and then with one POST request.   *)
(* An action is what runs between two awaits.                               *)

besidesDetails == <<builder, http, currentAccessToken, accessTokenExpiresAt,
                    refreshToken, calls, refreshRequests>>

Null == [t |-> "null"]

\* s.toUpperCase(), for the letters the VAT codes carry
ToUpperCase(s) ==
    [i \in 1..Len(s) |-> IF s[i] = "r" THEN "R" ELSE IF s[i] = "o" THEN "O" ELSE s[i]]

\* s.replace(/^RO/i, '')
ReplaceRO(s) ==
    IF Len(s) >= 2 /\ s[1] \in {"R", "r"} /\ s[2] \in {"O", "o"}
    THEN SubSeq(s, 3, Len(s)) ELSE s

\* parseInt(s, 10) for a string with no sign and no leading white space: the
\* number of its leading digits, NaN if it has none
RECURSIVE LeadingDigits(_)
LeadingDigits(s) ==
    IF s # <<>> /\ IsDigit(s[1]) THEN <<s[1]>> \o LeadingDigits(Tail(s)) ELSE <<>>

RECURSIVE DigitsValue(_)
DigitsValue(s) ==
    IF s = <<>> THEN 0 ELSE 10 * DigitsValue(SubSeq(s, 1, Len(s) - 1)) + DigitOf(s[Len(s)])

ParseInt(s) ==
    IF LeadingDigits(s) = <<>> THEN WholeNaN ELSE Whole(DigitsValue(LeadingDigits(s)))

\* extractCuiNumber(vatCode)
extractCuiNumber(vatCode) ==
    IF ~Truthy(vatCode) \/ vatCode.t # "string" THEN Null
    ELSE LET cuiNumber == ParseInt(ReplaceRO(ToUpperCase(Trim(vatCode.s))))
         IN IF cuiNumber = WholeNaN \/ cuiNumber.n <= 0 THEN Null ELSE cuiNumber

\* getCacheKey(cui)
getCacheKey(cui) == <<"anaf_company_", ToString(cui.n)>>

\* variant: an entry counts as valid up to cacheTtl milliseconds, inclusive
isCacheValidInclusive(timestamp) ==
    LET elapsed == Whole(now - timestamp)
    IN WholeLess(elapsed, config.cacheTtl) \/ elapsed = config.cacheTtl

\* isCacheValid(timestamp)
isCacheValid(timestamp) == WholeLess(Whole(now - timestamp), config.cacheTtl)

\* cache.get(key): the entry, undefined if there is none
MapGet(map, key) == IF key \in DOMAIN map THEN map[key] ELSE Undefined

\* cache.set(key, entry) and cache.delete(key)
MapSet(map, key, entry) ==
    [k \in DOMAIN map \cup {key} |-> IF k = key THEN entry ELSE map[k]]
MapDelete(map, key) == [k \in DOMAIN map \ {key} |-> map[k]]

\* getCachedData(cui): what it returns (null for nothing) and the cache it
\* leaves
getCachedData(cui) ==
    LET cached == MapGet(cache, getCacheKey(cui))
    IN IF ~config.enableCache THEN [data |-> Null, cache |-> cache]
       ELSE IF cached # Undefined /\ isCacheValid(cached.timestamp)
       THEN [data |-> cached.data, cache |-> cache]
       ELSE IF cached # Undefined
       THEN [data |-> Null, cache |-> MapDelete(cache, getCacheKey(cui))]
       ELSE [data |-> Null, cache |-> cache]

\* variant: only the results of successful lookups are stored
setCachedDataOnSuccess(cui, data) ==
    IF ~config.enableCache \/ ~data.success THEN cache
    ELSE MapSet(cache, getCacheKey(cui), [data |-> data, timestamp |-> now])

\* setCachedData(cui, data): the cache it leaves
setCachedData(cui, data) ==
    IF ~config.enableCache THEN cache
    ELSE MapSet(cache, getCacheKey(cui), [data |-> data, timestamp |-> now])

\* the results of getCompanyData
Success(data) == [t |-> "result", success |-> TRUE, data |-> data]
Failure(error) == [t |-> "result", success |-> FALSE, error |-> error]

\* what the POST request settles to: a response whose body has found
\* companies or is null; a rejection by fetch
Answers ==
    {Resolved([body |-> "found"]), Resolved([body |-> "null"]),
     Rejected(TypeError(<<"fetch", " failed">>))}

\* error.message?.includes('fetch') || error.message?.toLowerCase().includes('network'),
\* for messages given word by word
MentionsNetwork(error) ==
    \E i \in 1..Len(error.message) : error.message[i] \in {"fetch", "network", "Network"}

\* what getCompanyData settles to after the request has settled as given
\* (transformResponse throws a TypeError on a null body)
lookupSettles(cui, answer) ==
    IF answer.kind = "rejected"
    THEN IF answer.error.name = "AnafNotFoundError"
         THEN Resolved(Failure(<<"Company not found for the provided VAT code.">>))
         ELSE IF MentionsNetwork(answer.error)
         THEN Resolved(Failure(<<"Network error: Could not connect to ANAF service.">>))
         ELSE Resolved(Failure(
                  <<"An unexpected error occurred while contacting the ANAF service.">>))
    ELSE IF answer.value.body = "null"
    THEN Rejected(TypeError(<<"Cannot read properties of null">>))
    ELSE IF answer.value.body = "found"
    THEN Resolved(Success(<<[vatCode |-> ToString(cui.n)]>>))
    ELSE IF answer.value.body = "notFound"
    THEN Resolved(Failure(<<"Company not found for the provided VAT code.">>))
    ELSE Resolved(Failure(<<"Unexpected response structure from ANAF API: ", "{}">>))

\* a getCompanyData call: where it stands, its argument and CUI, the entry
\* cache.get returned and the time then, whether it made a request, what it
\* settled to and when
Lookup(pc_, vatCode, cui, found, requested, settled) ==
    [pc |-> pc_, vatCode |-> vatCode, cui |-> cui, found |-> found, at |-> now,
     requested |-> requested, settled |-> settled, settledAt |-> now]

\* the state of a getCompanyData(vatCode) call at its first await, or at its
\* end if it returns before, and the cache it leaves
getCompanyData(vatCode) ==
    LET cuiNumber == extractCuiNumber(vatCode)
        cachedResult == getCachedData(cuiNumber)
        found == IF config.enableCache THEN MapGet(cache, getCacheKey(cuiNumber))
                 ELSE Undefined
    IN IF ~Truthy(vatCode) \/ Len(Trim(vatCode.s)) < 2
       THEN [lookup |-> Lookup("done", vatCode, Null, Undefined, FALSE,
                               Resolved(Failure(<<"Invalid VAT code provided.">>))),
             cache |-> cache]
       ELSE IF ~Truthy(cuiNumber)
       THEN [lookup |-> Lookup("done", vatCode, Null, Undefined, FALSE,
                               Resolved(Failure(
                                   <<"Invalid CUI format. Please provide the numeric part.">>))),
             cache |-> cache]
       ELSE IF Truthy(cachedResult.data)
       THEN [lookup |-> Lookup("done", vatCode, cuiNumber, found, FALSE,
                               Resolved(cachedResult.data)),
             cache |-> cachedResult.cache]
       ELSE [lookup |-> Lookup("requesting", vatCode, cuiNumber, found, TRUE, Pending),
             cache |-> cachedResult.cache]

\* the VAT codes getCompanyData is called with
VatCodes ==
    {Str(<<"7">>), Str(<<"R", "O", "0">>), Str(<<"r", "o", "1", "2">>),
     Str(<<" ", "1", "2">>), Str(<<"3", "4">>)}

\* the configurations the client is constructed with: the cache on or off,
\* entries living for one step of the clock or for the default time
DetailsConfigs ==
    {[DEFAULT_CONFIG EXCEPT !.enableCache = enabled, !.cacheTtl = ttl] :
        enabled \in BOOLEAN, ttl \in {Whole(TickMs), DEFAULT_CONFIG.cacheTtl}}

\* time passes
DetailsTick ==
    /\ now < StartTime + MaxTicks * TickMs
    /\ now' = now + TickMs
    /\ UNCHANGED <<besidesDetails, details>>

\* a caller calls getCompanyData
GetCompanyData(l) ==
    /\ lookups[l].pc = "idle"
    /\ batch.pc = "idle"
    /\ \E vatCode \in VatCodes :
        LET call == getCompanyData(vatCode)
        IN /\ lookups' = [lookups EXCEPT ![l] = call.lookup]
           /\ cache' = call.cache
    /\ UNCHANGED <<besidesDetails, now, config, batch>>

\* the request of a call has settled: the call stores its result and
\* returns it, or throws
LookupSettles(l) ==
    /\ lookups[l].pc = "requesting"
    /\ \E answer \in Answers :
        LET settled == lookupSettles(lookups[l].cui, answer)
        IN /\ lookups' = [lookups EXCEPT ![l].pc = "done", ![l].settled = settled,
                                         ![l].settledAt = now]
           /\ cache' = IF settled.kind = "resolved"
                       THEN setCachedData(lookups[l].cui, settled.value)
                       ELSE cache
    /\ UNCHANGED <<besidesDetails, now, config, batch>>

\* the caller has its result
LookupEnds(l) ==
    /\ lookups[l].pc = "done"
    /\ batch.pc = "idle"
    /\ lookups' = [lookups EXCEPT ![l] = NoLookup]
    /\ UNCHANGED <<besidesDetails, now, config, cache, batch>>

NextDetails ==
    \/ DetailsTick
    \/ \E l \in Lookups : GetCompanyData(l)
    \/ \E l \in Lookups : LookupSettles(l)
    \/ \E l \in Lookups : LookupEnds(l)

InitDetails ==
    /\ BuilderStart({InputOf({}, <<>>, Str(<<"R", "O", "1">>), Undefined)})
    /\ ClientConstructed
    /\ http = HttpIdle
    /\ DetailsConstructed(DetailsConfigs)

SpecDetails == InitDetails /\ [][NextDetails]_vars

-----------------------------------------------------------------------------
(* AnafDetailsClient.batchGetCompanyData(vatCodes, options): the loop that   *)
(* looks the codes up, `concurrency` at a time, pausing between the slices.  *)

\* Bound of the batch: how far below 0 the loop index is followed
MaxBelow == 3

\* the integer a relative index of slice denotes in an array of the length
RelativeIndex(x, length) ==
    IF x.t # "whole" THEN 0
    ELSE IF x.n < 0 THEN (IF length + x.n < 0 THEN 0 ELSE length + x.n)
    ELSE IF x.n > length THEN length ELSE x.n

\* array.slice(start, end)
Slice(array, start, end) ==
    LET from == RelativeIndex(start, Len(array))
        to == RelativeIndex(end, Len(array))
    IN IF from < to THEN SubSeq(array, from + 1, to) ELSE <<>>

\* the arguments batchGetCompanyData is called with; a missing option takes
\* its default, 3 and 1000
BatchCodes ==
    {<<>>, <<Str(<<"3", "4">>)>>, <<Str(<<"r", "o", "1", "2">>), Str(<<"3", "4">>)>>,
     <<Str(<<" ", "1", "2">>), Str(<<"R", "O", "0">>)>>}
BatchConcurrencies == {WholeNaN, Whole(0 - 1), Whole(0), Whole(1), Whole(2), Whole(3)}
BatchDelays == {WholeNaN, Whole(0), Whole(1000)}

\* batchGetCompanyData at the first test of its loop
BatchCalled(vatCodes, concurrency, delayMs) ==
    [pc |-> "loop", vatCodes |-> vatCodes, concurrency |-> concurrency,
     delayMs |-> delayMs, i |-> Whole(0), results |-> <<>>, awaited |-> 0]

\* an index at or below minus the length of the array passes the loop test
\* and selects the empty slice, whatever it is: -MaxBelow stands for all the
\* indices below it
AtLeastFloor(x) == IF x.t = "whole" /\ x.n < 0 - MaxBelow THEN Whole(0 - MaxBelow) ELSE x

\* i += concurrency
Advance(b) == [b EXCEPT !.pc = "loop", !.i = AtLeastFloor(WholeAdd(b.i, b.concurrency))]

\* the loop test and, if it holds, the slice of codes whose lookups are
\* started, one after the other; each deletes at most the expired entry of
\* its own key, which changes nothing for the others
BatchLoop ==
    /\ batch.pc = "loop"
    /\ IF WholeLess(batch.i, Whole(Len(batch.vatCodes)))
       THEN \E slice \in {Slice(batch.vatCodes, batch.i, WholeAdd(batch.i, batch.concurrency))} :
            \E started \in {[k \in 1..Len(slice) |-> getCompanyData(slice[k])]} :
               /\ lookups' = [l \in Lookups |->
                                 IF l <= Len(slice) THEN started[l].lookup ELSE NoLookup]
               /\ cache' = [key \in {k \in DOMAIN cache :
                                        \A n \in 1..Len(slice) : k \in DOMAIN started[n].cache}
                               |-> cache[key]]
               /\ batch' = [batch EXCEPT !.pc = "awaiting", !.awaited = Len(slice)]
       ELSE /\ batch' = [batch EXCEPT !.pc = "done"]
            /\ UNCHANGED <<lookups, cache>>
    /\ UNCHANGED <<besidesDetails, now, config>>

\* Promise.all has settled: it rejects as soon as a lookup has thrown, and
\* then so does the batch; it resolves when all have returned, the results
\* are pushed, and the loop pauses or moves on
BatchCollect ==
    /\ batch.pc = "awaiting"
    /\ LET slots == 1..batch.awaited
       IN \/ /\ \E l \in slots : lookups[l].pc = "done" /\ lookups[l].settled.kind = "rejected"
             /\ batch' = [batch EXCEPT !.pc = "done", !.results = <<"rejected">>]
             /\ UNCHANGED lookups
          \/ /\ \A l \in slots : lookups[l].pc = "done" /\ lookups[l].settled.kind = "resolved"
             /\ LET pushed == [batch EXCEPT !.results =
                                  @ \o [l \in slots |-> lookups[l].settled.value.success]]
                IN batch' = IF /\ WholeLess(WholeAdd(batch.i, batch.concurrency),
                                            Whole(Len(batch.vatCodes)))
                               /\ WholeLess(Whole(0), batch.delayMs)
                            THEN [pushed EXCEPT !.pc = "pausing"]
                            ELSE Advance(pushed)
             /\ lookups' = [l \in Lookups |-> NoLookup]
    /\ UNCHANGED <<besidesDetails, now, config, cache>>

\* the pause between two slices is over
BatchResumes ==
    /\ batch.pc = "pausing"
    /\ batch' = Advance(batch)
    /\ UNCHANGED <<besidesDetails, now, config, cache, lookups>>

NextBatch ==
    \/ BatchLoop
    \/ \E l \in Lookups : LookupSettles(l)
    \/ BatchCollect
    \/ BatchResumes

InitBatch ==
    /\ BuilderStart({InputOf({}, <<>>, Str(<<"R", "O", "1">>), Undefined)})
    /\ ClientConstructed
    /\ http = HttpIdle
    /\ config = DEFAULT_CONFIG
    /\ cache = EmptyMap
    /\ lookups = [l \in Lookups |-> NoLookup]
    /\ \E vatCodes \in BatchCodes, concurrency \in BatchConcurrencies, delayMs \in BatchDelays :
          batch = BatchCalled(vatCodes, concurrency, delayMs)

\* every lookup settles, and the loop and its pauses go on
SpecBatch ==
    /\ InitBatch
    /\ [][NextBatch]_vars
    /\ WF_vars(BatchLoop)
    /\ WF_vars(BatchCollect)
    /\ WF_vars(BatchResumes)
    /\ \A l \in Lookups : WF_vars(LookupSettles(l))

-----------------------------------------------------------------------------
(* Vocabulary of the properties *)

\* rounding to 2 decimals, as the builder does it: parseFloat(x.toFixed(2))
Round2(x) == ParseFloat(ToFixed(x, 2))

\* x is the number a 2-decimal numeral denotes
IsRound2(x) == Round2(x) = x

\* the whole number of cents a 2-decimal numeral "d...d.dd" denotes
RECURSIVE CentsOfText(_)
CentsOfText(s) ==
    IF s = <<>> THEN 0
    ELSE IF s[Len(s)] = "." THEN CentsOfText(SubSeq(s, 1, Len(s) - 1))
    ELSE 10 * CentsOfText(SubSeq(s, 1, Len(s) - 1)) + DigitOf(s[Len(s)])

\* the whole number of cents nearest to a number
Cents(x) == BigToInt(ToFixedInt(x, 2))

RECURSIVE SumInts(_)
SumInts(q) == IF q = <<>> THEN 0 ELSE Head(q) + SumInts(Tail(q))

Elements(tagName) == SelectSeq(root, LAMBDA el : el.tag = tagName)
InvoiceLines == Elements("cac:InvoiceLine")
TaxTotals == Elements("cac:TaxTotal")
MonetaryTotals == Elements("cac:LegalMonetaryTotal")

Returned == pc = "done" /\ result.kind = "returned"
Threw == pc = "done" /\ result.kind = "threw"

\* the lines of the input (of an input that passed validation)
Lines == input.lines.items

\* how many lines groupLinesByTax has processed
Grouped ==
    IF pc = "group" THEN index
    ELSE IF taxGroups = <<>> THEN 0
    ELSE Len(Lines)

Groups == MapValues(taxGroups)

\* the tax percent of a line, 0 when omitted
PercentOf(line) == IF line.taxPercent = Undefined THEN Zero ELSE line.taxPercent.v

\* the category the claims give a line under the effective VAT-payer flag
ExpectedCategory(line) ==
    IF ~Truthy(isSupplierVatPayer) THEN "O"
    ELSE IF DLess(Zero, PercentOf(line)) THEN "S"
    ELSE "Z"

PairOf(line) == <<ExpectedCategory(line), PercentOf(line)>>
GroupPair(group) == <<group.categoryId, group.percent.v>>

\* a sequence without its repetitions, each element where it first occurs
RECURSIVE FirstSeen(_)
FirstSeen(q) ==
    IF q = <<>> THEN <<>>
    ELSE LET init == FirstSeen(SubSeq(q, 1, Len(q) - 1))
             last == q[Len(q)]
         IN IF \E i \in 1..Len(init) : init[i] = last THEN init ELSE Append(init, last)

GroupedPairs == [k \in 1..Grouped |-> PairOf(Lines[k])]

\* the amounts of the claims, line by line
LineExtensionOf(line) == Round2(DMul(line.quantity.v, Round2(line.unitPrice.v)))
LineTaxOf(line) == Round2(DMul(LineExtensionOf(line), DDivInt(PercentOf(line), 100)))

\* x1, then round2(. + x2), then round2(. + x3), ...
RECURSIVE RunningSum(_)
RunningSum(q) ==
    IF Len(q) = 1 THEN q[1]
    ELSE Round2(DAdd(RunningSum(SubSeq(q, 1, Len(q) - 1)), q[Len(q)]))

\* the processed lines of a pair, in input order
Members(pair) == SelectSeq([k \in 1..Grouped |-> Lines[k]], LAMBDA line : PairOf(line) = pair)

-----------------------------------------------------------------------------
(* C1: every invoice line written so far carries the line-extension amount  *)
(* round2(quantity * round2(unitPrice)): the unit price is rounded to 2     *)
(* decimals before the multiplication and the product is rounded again; the *)
(* line 3 x 33.333333 is written "99.99".                                   *)
C1_LineExtensionRoundsPriceFirst ==
    \A k \in 1..Len(InvoiceLines) :
        /\ InvoiceLines[k].lineExtensionAmount = ToFixed(LineExtensionOf(Lines[k]), 2)
        /\ (Lines[k].quantity = Pos(3, 0) /\ Lines[k].unitPrice = Pos(33333333, 6))
              => InvoiceLines[k].lineExtensionAmount = <<"9", "9", ".", "9", "9">>

C1_Witness ==
    /\ Returned
    /\ \E k \in 1..Len(InvoiceLines) :
          /\ Lines[k].quantity = Pos(3, 0) /\ Lines[k].unitPrice = Pos(33333333, 6)
          /\ InvoiceLines[k].lineExtensionAmount = <<"9", "9", ".", "9", "9">>
          /\ InvoiceLines[k].priceAmount = <<"3", "3", ".", "3", "3">>

(* C2: under the effective isSupplierVatPayer flag, a line's category is    *)
(* "O" when the flag is false whatever its taxPercent, else "S" when        *)
(* taxPercent > 0 and "Z" when it is 0 or omitted; this is the category     *)
(* written on the invoice line and the category of the group the line is    *)
(* accumulated into.                                                        *)
C2_LineCategory ==
    /\ \A k \in 1..Len(InvoiceLines) :
          InvoiceLines[k].categoryID = ExpectedCategory(Lines[k])
    /\ \A k \in 1..Grouped :
          \E i \in 1..Len(Groups) :
              /\ Groups[i].categoryId = ExpectedCategory(Lines[k])
              /\ Groups[i].percent.v = PercentOf(Lines[k])
    /\ \A i \in 1..Len(Groups) :
          \E k \in 1..Grouped : Groups[i].categoryId = ExpectedCategory(Lines[k])

C2_Witness ==
    /\ Returned
    /\ ~Truthy(isSupplierVatPayer)
    /\ \E k \in 1..Len(InvoiceLines) :
          /\ Lines[k].taxPercent = Pos(19, 0)
          /\ InvoiceLines[k].categoryID = "O"
          /\ \E i \in 1..Len(Groups) :
                Groups[i].categoryId = "O" /\ Groups[i].percent = Pos(19, 0)

(* C3: the tax groups are, in order, the distinct (categoryId, taxPercent)  *)
(* pairs of the lines processed so far, each where it first occurs; for a   *)
(* non-empty line list the document has one tax-subtotal block per group,   *)
(* in the same order.                                                       *)
C3_OneGroupPerPair ==
    /\ [i \in 1..Len(Groups) |-> GroupPair(Groups[i])] = FirstSeen(GroupedPairs)
    /\ \A t \in 1..Len(TaxTotals) :
          Len(Lines) > 0 =>
              LET pairs == FirstSeen([k \in 1..Len(Lines) |-> PairOf(Lines[k])])
                  subs  == TaxTotals[t].taxSubtotals
              IN /\ Len(subs) = Len(pairs)
                 /\ \A i \in 1..Len(subs) :
                       /\ subs[i].categoryID = pairs[i][1]
                       /\ subs[i].percent = ToFixed(pairs[i][2], 2)

C3_Witness ==
    /\ Returned
    /\ Len(Lines) = 3
    /\ PairOf(Lines[1]) = PairOf(Lines[3])
    /\ PairOf(Lines[1]) # PairOf(Lines[2])
    /\ Len(TaxTotals[1].taxSubtotals) = 2
    /\ GroupPair(Groups[1]) = PairOf(Lines[1])

(* C4: each group's taxableAmount and taxAmount are the running sums, over  *)
(* the lines of its pair in input order, of the lines' line extensions and  *)
(* of their taxes round2(lineExtension * (taxPercent / 100)), rounded to 2  *)
(* decimals after each addition.                                            *)
C4_GroupAmounts ==
    \A i \in 1..Len(Groups) :
        LET members == Members(GroupPair(Groups[i]))
        IN /\ members # <<>>
           /\ Groups[i].taxableAmount =
                 RunningSum([k \in 1..Len(members) |-> LineExtensionOf(members[k])])
           /\ Groups[i].taxAmount =
                 RunningSum([k \in 1..Len(members) |-> LineTaxOf(members[k])])

C4_Witness ==
    /\ Returned
    /\ \E i \in 1..Len(Groups) :
          /\ Len(Members(GroupPair(Groups[i]))) >= 2
          /\ Groups[i].taxableAmount = Num(3, 1)
    /\ \E i \in 1..Len(Groups) :
          Groups[i].taxableAmount = Num(25, 1) /\ Groups[i].taxAmount = Num(47, 2)

(* C5: once grouping is complete every line belongs to exactly one group,   *)
(* and the group taxable amounts add up, in whole cents, to the sum of the  *)
(* lines' line-extension amounts (those written on the invoice lines).      *)
C5_GroupsPartitionLines ==
    Returned =>
        /\ \A k \in 1..Len(Lines) :
              Cardinality({i \in 1..Len(Groups) : GroupPair(Groups[i]) = PairOf(Lines[k])}) = 1
        /\ SumInts([i \in 1..Len(Groups) |-> Cents(Groups[i].taxableAmount)])
              = SumInts([k \in 1..Len(InvoiceLines) |->
                             CentsOfText(InvoiceLines[k].lineExtensionAmount)])
        /\ Len(InvoiceLines) = Len(Lines)

C5_Witness ==
    /\ Returned
    /\ Len(Lines) = 3
    /\ Len(Groups) = 2
    /\ SumInts([i \in 1..Len(Groups) |-> Cents(Groups[i].taxableAmount)]) = 10029

(* C6: for a non-empty line list, the TaxableAmount values of the           *)
(* tax-subtotal blocks add up, in whole cents, to the LineExtensionAmount   *)
(* of the legal monetary total.                                             *)
C6_SubtotalsSumToLineExtension ==
    (Len(MonetaryTotals) > 0 /\ Len(Lines) > 0) =>
        LET subs == TaxTotals[1].taxSubtotals
        IN SumInts([i \in 1..Len(subs) |-> CentsOfText(subs[i].taxableAmount)])
              = CentsOfText(MonetaryTotals[1].lineExtensionAmount)

C6_Witness ==
    /\ Returned
    /\ Len(TaxTotals[1].taxSubtotals) = 2
    /\ TaxTotals[1].taxSubtotals[1].taxableAmount = <<"1", "0", "0", ".", "0", "0">>
    /\ TaxTotals[1].taxSubtotals[2].taxableAmount = <<"1", "0", "0", ".", "0", "0">>
    /\ MonetaryTotals[1].lineExtensionAmount = <<"2", "0", "0", ".", "0", "0">>

(* C7: in every document the tax-inclusive total written equals, in whole   *)
(* cents, the line-extension total written plus the total tax amount        *)
(* written; the payable amount is the same numeral.                         *)
C7_GrandTotalIsTaxablePlusTax ==
    Len(MonetaryTotals) > 0 =>
        /\ CentsOfText(MonetaryTotals[1].taxInclusiveAmount)
              = CentsOfText(MonetaryTotals[1].lineExtensionAmount)
                + CentsOfText(TaxTotals[1].taxAmount)
        /\ MonetaryTotals[1].payableAmount = MonetaryTotals[1].taxInclusiveAmount

C7_Witness ==
    /\ Returned
    /\ MonetaryTotals[1].lineExtensionAmount = <<"2", "0", "0", ".", "0", "0">>
    /\ TaxTotals[1].taxAmount = <<"2", "8", ".", "0", "0">>
    /\ MonetaryTotals[1].taxInclusiveAmount = <<"2", "2", "8", ".", "0", "0">>

IsBlank(x) == x = Undefined \/ (x.t = "string" /\ \A i \in 1..Len(x.s) : x.s[i] = " ")

\* the checks on a party in their order; a check on a part that is absent
\* does not apply
PartyChecks(in, field, role, missing) ==
    LET present == in # Undefined /\ in[field] # Undefined
        party == in[field]
        hasAddress == present /\ party.address # Undefined
    IN << [broken |-> in # Undefined /\ in[field] = Undefined,
           message |-> <<missing>>],
          [broken |-> present /\ IsBlank(party.registrationName),
           message |-> <<role, " registration name is required">>],
          [broken |-> present /\ IsBlank(party.companyId),
           message |-> <<role, " company ID is required">>],
          [broken |-> present /\ party.address = Undefined,
           message |-> <<role, " address is required">>],
          [broken |-> hasAddress /\ IsBlank(party.address.street),
           message |-> <<role, " street address is required">>],
          [broken |-> hasAddress /\ IsBlank(party.address.city),
           message |-> <<role, " city is required">>],
          [broken |-> hasAddress /\ IsBlank(party.address.postalZone),
           message |-> <<role, " postal zone is required">>] >>

\* the checks before the lines, in the order of the claim
HeaderChecks(in) ==
    << [broken |-> in = Undefined,
        message |-> <<"Invoice input data is required">>],
       [broken |-> in # Undefined /\ IsBlank(in.invoiceNumber),
        message |-> <<"Invoice number is required">>],
       [broken |-> in # Undefined /\ in.issueDate = Undefined,
        message |-> <<"Issue date is required">>] >>
    \o PartyChecks(in, "supplier", "Supplier", "Supplier information is required")
    \o PartyChecks(in, "customer", "Customer", "Customer information is required")
    \o << [broken |-> in # Undefined /\ in.lines = Undefined,
           message |-> <<"Invoice lines array is required">>] >>

\* the checks on a line in the order of the claim
LineChecks(line) ==
    << [broken |-> IsBlank(line.description),
        text |-> ": Description is required"],
       [broken |-> line.quantity.t # "number" \/ line.quantity.neg \/ line.quantity.v = Zero,
        text |-> ": Quantity must be a positive number"],
       [broken |-> line.unitPrice.t # "number" \/ line.unitPrice.neg,
        text |-> ": Unit price must be a non-negative number"],
       [broken |-> /\ line.taxPercent # Undefined
                   /\ \/ line.taxPercent.t # "number"
                      \/ line.taxPercent.neg
                      \/ Cents(line.taxPercent.v) > 10000,
        text |-> ": Tax percent must be between 0 and 100"] >>

Broken(checks) == {i \in 1..Len(checks) : checks[i].broken}
FirstBroken(checks) == CHOOSE i \in Broken(checks) : \A j \in Broken(checks) : i <= j

InvalidLines(in) == {k \in 1..Len(in.lines.items) : Broken(LineChecks(in.lines.items[k])) # {}}

BuildFailure == "Failed to generate invoice XML: "

(* C9: when the input violates constraints, the call fails with one error,  *)
(* that of the first violated constraint in the order: input present,       *)
(* invoice number, issue date, supplier (present, registration name,        *)
(* company id, address, street, city, postal zone), customer (the same),    *)
(* lines array present, then the lines; a missing invoice number together   *)
(* with a missing supplier gives the invoice-number error.                  *)
C9_FirstViolationReported ==
    pc = "done" =>
        LET checks == HeaderChecks(input)
        IN /\ Broken(checks) # {} =>
                 /\ Threw
                 /\ result.error =
                       AnafValidationError(<<BuildFailure>> \o checks[FirstBroken(checks)].message)
           /\ (Broken(checks) = {} /\ InvalidLines(input) # {}) =>
                 /\ Threw
                 /\ result.error.name = "AnafValidationError"
                 /\ Len(result.error.message) = 4
                 /\ SubSeq(result.error.message, 1, 2) = <<BuildFailure, "Line ">>
           /\ (input # Undefined /\ IsBlank(input.invoiceNumber) /\ input.supplier = Undefined) =>
                 result.error.message = <<BuildFailure, "Invoice number is required">>

C9_Witness ==
    /\ Threw
    /\ input # Undefined
    /\ input.invoiceNumber = Undefined
    /\ input.supplier = Undefined
    /\ result.error = AnafValidationError(<<BuildFailure, "Invoice number is required">>)

(* C10: when the checks before the lines pass and some line is invalid, the *)
(* call fails with the error of the first invalid line in input order,      *)
(* named by its 1-based index, and of that line's first failing check in    *)
(* the order description, quantity, unit price, tax percent.                *)
C10_FirstInvalidLineReported ==
    (pc = "done" /\ Broken(HeaderChecks(input)) = {} /\ InvalidLines(input) # {}) =>
        LET k == CHOOSE k \in InvalidLines(input) : \A j \in InvalidLines(input) : k <= j
            checks == LineChecks(input.lines.items[k])
        IN /\ Threw
           /\ result.error =
                 AnafValidationError(<<BuildFailure, "Line ", ToString(k),
                                       checks[FirstBroken(checks)].text>>)

C10_Witness ==
    /\ Threw
    /\ input # Undefined
    /\ input.lines # Undefined
    /\ InvalidLines(input) = {1, 2}
    /\ Cardinality(Broken(LineChecks(input.lines.items[1]))) = 4
    /\ Broken(LineChecks(input.lines.items[2])) = {2, 3, 4}
    /\ result.error =
          AnafValidationError(<<BuildFailure, "Line ", "1", ": Description is required">>)

\* the bounds of the claim on a line
IsPositiveNumber(x) == x.t = "number" /\ x.v # NaN /\ ~x.neg /\ x.v # Zero
IsNonNegativeNumber(x) == x.t = "number" /\ x.v # NaN /\ ~x.neg
IsPercentage(x) == IsNonNegativeNumber(x) /\ ~DLess(Num(100, 0), x.v)

InBounds(line) ==
    /\ ~IsBlank(line.description)
    /\ IsPositiveNumber(line.quantity)
    /\ IsNonNegativeNumber(line.unitPrice)
    /\ line.taxPercent # Undefined => IsPercentage(line.taxPercent)

(* C11, as claimed: a call returns a document only if every line has a      *)
(* non-blank description, a quantity that is a number greater than 0, a     *)
(* unit price that is a number greater than or equal to 0 and, when given,  *)
(* a tax percent that is a number within [0, 100]; a call with a line       *)
(* outside these bounds throws a validation error.                          *)
C11_OnlyLinesInBoundsBuild ==
    pc = "done" =>
        /\ Returned => \A k \in 1..Len(Lines) : InBounds(Lines[k])
        /\ (\E k \in 1..Len(Lines) : ~InBounds(Lines[k])) =>
              Threw /\ result.error.name = "AnafValidationError"

\* the tags of the children of <Invoice> in a complete document of n lines
\* without payment means
CompleteTags(n) ==
    <<"cbc:CustomizationID", "cbc:ID", "cbc:IssueDate", "cbc:DueDate",
      "cbc:InvoiceTypeCode", "cbc:DocumentCurrencyCode",
      "cac:AccountingSupplierParty", "cac:AccountingCustomerParty",
      "cac:TaxTotal", "cac:LegalMonetaryTotal">>
    \o [k \in 1..n |-> "cac:InvoiceLine"]

(* C12: nothing reaches the caller before the call ends, and a call ends    *)
(* either returning the complete document or throwing an                    *)
(* AnafValidationError whose message is "Failed to generate invoice XML: "  *)
(* followed by the message of the error raised inside the build, whatever   *)
(* kind of error that was; a call that throws returns no document.          *)
C12_DocumentOrValidationError ==
    /\ pc # "done" => result = NoResult
    /\ pc = "done" =>
          \/ /\ result.kind = "returned"
             /\ thrown = NoError
             /\ DOMAIN result = {"kind", "document"}
             /\ [i \in 1..Len(result.document) |-> result.document[i].tag]
                   = CompleteTags(Len(Lines))
          \/ /\ result.kind = "threw"
             /\ thrown # NoError
             /\ DOMAIN result = {"kind", "error"}
             /\ result.error.name = "AnafValidationError"
             /\ result.error.message = <<BuildFailure>> \o thrown.message

C12_Witness ==
    /\ Threw
    /\ thrown = Error(<<"Invalid date provided">>)
    /\ result.error = AnafValidationError(<<BuildFailure, "Invalid date provided">>)
    /\ root = <<>>

ZeroAmount == <<"0", ".", "0", "0">>

(* C13: a call whose input is sound and has lines = [] returns a document   *)
(* (it does not throw); the document has no invoice line and one            *)
(* tax-subtotal, of category "S", percent "0.00", taxable and tax amounts   *)
(* "0.00" and no exemption code, and its total TaxAmount,                   *)
(* LineExtensionAmount and PayableAmount are "0.00".                        *)
C13_EmptyLinesBuild ==
    (/\ pc = "done"
     /\ Broken(HeaderChecks(input)) = {}
     /\ Lines = <<>>
     /\ formatDateForAnaf(input.issueDate).error = NoError) =>
        /\ Returned
        /\ InvoiceLines = <<>>
        /\ Len(TaxTotals) = 1
        /\ TaxTotals[1].taxAmount = ZeroAmount
        /\ Len(TaxTotals[1].taxSubtotals) = 1
        /\ LET sub == TaxTotals[1].taxSubtotals[1]
           IN /\ sub.categoryID = "S"
              /\ sub.percent = ZeroAmount
              /\ sub.taxableAmount = ZeroAmount
              /\ sub.taxAmount = ZeroAmount
              /\ sub.taxExemptionReasonCode = <<>>
        /\ MonetaryTotals[1].lineExtensionAmount = ZeroAmount
        /\ MonetaryTotals[1].taxInclusiveAmount = ZeroAmount
        /\ MonetaryTotals[1].payableAmount = ZeroAmount

C13_Witness ==
    /\ Returned
    /\ Lines = <<>>
    /\ ~Truthy(isSupplierVatPayer)
    /\ TaxTotals[1].taxSubtotals[1].categoryID = "S"
    /\ MonetaryTotals[1].payableAmount = ZeroAmount

(* C14: a tax-subtotal block carries an exemption-reason code exactly when  *)
(* its category is "O", and the code is then VATEX-EU-O; the same holds of  *)
(* the tax groups the blocks are written from.                              *)
C14_ExemptionReasonIffCategoryO ==
    /\ \A i \in 1..Len(Groups) :
          /\ Groups[i].exemptionReasonCode # Undefined <=> Groups[i].categoryId = "O"
          /\ Groups[i].categoryId = "O" => Groups[i].exemptionReasonCode = Str(VATEX_EU_O)
    /\ \A t \in 1..Len(TaxTotals) :
          \A i \in 1..Len(TaxTotals[t].taxSubtotals) :
              LET sub == TaxTotals[t].taxSubtotals[i]
              IN /\ sub.taxExemptionReasonCode # <<>> <=> sub.categoryID = "O"
                 /\ sub.categoryID = "O" => sub.taxExemptionReasonCode = <<VATEX_EU_O>>

C14_Witness ==
    /\ Returned
    /\ Len(TaxTotals[1].taxSubtotals) = 2
    /\ \A i \in 1..2 :
          /\ TaxTotals[1].taxSubtotals[i].categoryID = "O"
          /\ TaxTotals[1].taxSubtotals[i].taxExemptionReasonCode = <<VATEX_EU_O>>

\* the call has set its defaults
Defaulted ==
    pc \in {"group", "totals", "header", "taxTotal", "monetaryTotal", "lines", "end"}
    \/ Returned

(* C15: once the defaults are set, the effective isSupplierVatPayer flag is *)
(* the one given when the input gives one (true or false), whatever the     *)
(* supplier's VAT number; when the input omits it, it is true exactly when  *)
(* the supplier has a VAT number.                                           *)
C15_EffectiveVatPayerFlag ==
    Defaulted =>
        IF input.isSupplierVatPayer = Undefined
        THEN isSupplierVatPayer = Bool(input.supplier.vatNumber # Undefined)
        ELSE isSupplierVatPayer = input.isSupplierVatPayer

C15_Witness ==
    /\ Returned
    /\ input.isSupplierVatPayer = Bool(FALSE)
    /\ input.supplier.vatNumber # Undefined
    /\ isSupplierVatPayer = Bool(FALSE)
    /\ Len(InvoiceLines) > 0
    /\ InvoiceLines[1].categoryID = "O"

\* the line id the claim gives the k-th line: its id when it has a (non-empty)
\* one, a number written as its decimal numeral, and k otherwise
ExpectedLineId(line, k) ==
    CASE line.id.t = "string" /\ line.id.s # <<>> -> line.id.s
      [] line.id.t = "number" -> ToFixed(line.id.v, 0)
      [] OTHER -> <<ToString(k)>>

(* C16: the invoice-line elements written so far are those of the first     *)
(* input lines, in input order, and a returned document has exactly one per *)
(* input line; the k-th element's id is the k-th line's own id as a string  *)
(* when the line has one (an empty string counts as none), else k.          *)
C16_OneInvoiceLinePerLine ==
    /\ Len(InvoiceLines) > 0 => Len(InvoiceLines) <= Len(Lines)
    /\ \A k \in 1..Len(InvoiceLines) :
          /\ InvoiceLines[k].description = Lines[k].description.s
          /\ InvoiceLines[k].id = ExpectedLineId(Lines[k], k)
    /\ Returned =>
          /\ Len(InvoiceLines) = Len(Lines)
          /\ \A i \in 1..Len(root) :
                root[i].tag = "cac:InvoiceLine" <=> i > Len(root) - Len(Lines)

C16_Witness ==
    /\ Returned
    /\ Len(Lines) = 3
    /\ Lines[1].id = Pos(7, 0) /\ InvoiceLines[1].id = <<"7">>
    /\ Lines[2].id = Undefined /\ InvoiceLines[2].id = <<"2">>
    /\ Lines[3].id = Str(<<"A">>) /\ InvoiceLines[3].id = <<"A">>

\* a numeral in fixed 2-decimal notation: digits, ".", two digits
IsFixed2(s) ==
    /\ Len(s) >= 4
    /\ s[Len(s) - 2] = "."
    /\ \A i \in (1..Len(s)) \ {Len(s) - 2} : IsDigit(s[i])

NaNText == <<"N", "a", "N">>

\* the monetary amounts and the percentages written in the document
AmountTexts ==
    UNION {{TaxTotals[t].taxAmount} : t \in 1..Len(TaxTotals)}
    \cup UNION {UNION {{TaxTotals[t].taxSubtotals[i].taxableAmount,
                         TaxTotals[t].taxSubtotals[i].taxAmount} :
                           i \in 1..Len(TaxTotals[t].taxSubtotals)} :
                  t \in 1..Len(TaxTotals)}
    \cup UNION {{MonetaryTotals[t].lineExtensionAmount, MonetaryTotals[t].taxExclusiveAmount,
                 MonetaryTotals[t].taxInclusiveAmount, MonetaryTotals[t].payableAmount} :
                  t \in 1..Len(MonetaryTotals)}
    \cup UNION {{InvoiceLines[k].lineExtensionAmount, InvoiceLines[k].priceAmount} :
                  k \in 1..Len(InvoiceLines)}

PercentTexts ==
    UNION {{TaxTotals[t].taxSubtotals[i].percent : i \in 1..Len(TaxTotals[t].taxSubtotals)} :
             t \in 1..Len(TaxTotals)}
    \cup {InvoiceLines[k].percent : k \in 1..Len(InvoiceLines)}

QuantityTexts == {InvoiceLines[k].invoicedQuantity : k \in 1..Len(InvoiceLines)}

KnownGood(seen) ==
    /\ Truthy(seen.token)
    /\ seen.expiresAt.t = "whole"
    /\ seen.at + 30000 < seen.expiresAt.n

\* C20: an API call of the auto-token client takes the stored access token
\* without refreshing exactly when, at the moment it looked, a token and an
\* expiry were stored and the time was more than 30 seconds before that
\* expiry; in every other case it has sent a refresh request first; so the
\* token of a request sent without a refresh is the one found good
C20_StoredTokenUsedOnlyWhileValid ==
    \A c \in Callers :
        calls[c].pc # "idle" =>
            /\ ~calls[c].refreshed <=> KnownGood(calls[c].seen)
            /\ calls[c].refreshed =>
                   calls[c].request > 0 /\ calls[c].request <= refreshRequests
            /\ calls[c].pc \in {"token", "sent"} /\ ~calls[c].refreshed =>
                   calls[c].token = calls[c].seen.token
            /\ calls[c].pc = "sent" /\ ~KnownGood(calls[c].seen) => calls[c].refreshed

\* a request sent after a refresh by a call that found the token exactly 30
\* seconds before its expiry, and one sent with the stored token
C20_Witness ==
    \E c, d \in Callers :
        /\ calls[c].pc = "sent" /\ calls[c].refreshed
        /\ Truthy(calls[c].seen.token)
        /\ calls[c].seen.expiresAt.t = "whole"
        /\ calls[c].seen.at + 30000 = calls[c].seen.expiresAt.n
        /\ calls[d].pc = "sent" /\ ~calls[d].refreshed


\* C24: a step in which the refresh of a call fails leaves the stored access
\* token, expiry and refresh token as they were and rejects the call with
\* AnafAuthenticationError; a rejected call only ends, its API request is
\* never sent
C24_FailedRefreshRejectsAndKeepsTokens ==
    [][\A c \in Callers :
          /\ calls[c].pc = "refreshing" /\ calls'[c].pc = "rejected" =>
                /\ calls'[c].error.name = "AnafAuthenticationError"
                /\ calls'[c].token = Undefined
                /\ UNCHANGED <<currentAccessToken, accessTokenExpiresAt, refreshToken>>
          /\ calls[c].pc = "refreshing" => calls'[c].pc \in {"refreshing", "refreshed", "rejected"}
          /\ calls[c].pc = "rejected" => calls'[c].pc \in {"rejected", "idle"}]_vars

\* a call rejected by a failed refresh while a token, an expiry and a rotated
\* refresh token of an earlier refresh are stored
C24_Witness ==
    \E c \in Callers :
        /\ calls[c].pc = "rejected"
        /\ calls[c].error.name = "AnafAuthenticationError"
        /\ calls[c].request = 2
        /\ currentAccessToken = IssuedToken(1)
        /\ accessTokenExpiresAt.t = "whole"
        /\ refreshToken = RotatedRefreshToken

\* C27: calls in flight at once that found no valid token share one refresh
\* request, and the requests they send carry the token of that refresh
C27_ConcurrentCallsShareOneRefresh ==
    \A c, d \in Callers :
        /\ calls[c].pc # "idle" /\ calls[c].refreshed
        /\ calls[d].pc # "idle" /\ calls[d].refreshed
        => /\ calls[c].request = calls[d].request
           /\ calls[c].pc = "sent" => calls[c].token = IssuedToken(calls[c].request)


UnknownStandard(standard) ==
    /\ standard.t = "string"
    /\ standard.s # <<>>
    /\ standard.s \notin {<<"U", "B", "L">>, <<"C", "N">>, <<"C", "I", "I">>,
                           <<"R", "A", "S", "P">>}

\* C22: uploadDocument called with a blank access token, a blank XML
\* content or an unknown standard is rejected with AnafValidationError, and
\* the call has made no fetch and armed no timer
C22_InvalidArgumentsRejectBeforeRequest ==
    /\ http.pc # "idle"
    /\ \/ IsBlank(http.args.accessToken)
       \/ IsBlank(http.args.xmlContent)
       \/ UnknownStandard(http.args.standard)
    => /\ http.pc = "settled"
       /\ http.outcome.kind = "rejected"
       /\ http.outcome.error.name = "AnafValidationError"
       /\ http.fetches = 0
       /\ http.timer = "none"
       /\ http.request = Pending

\* a call rejected for its standard alone
C22_Witness ==
    /\ http.pc = "settled"
    /\ ~IsBlank(http.args.accessToken)
    /\ ~IsBlank(http.args.xmlContent)
    /\ http.args.standard = Str(<<"u", "b", "l">>)
    /\ http.outcome.kind = "rejected"
    /\ http.fetches = 0

\* C26: whenever the promise of request is rejected, it is rejected with an
\* error of the SDK, and after the timer has fired with the AnafApiError
\* 'Request timeout'
C26_RequestRejectsWithSdkErrorsOnly ==
    http.request.kind = "rejected" =>
        /\ InstanceOfAnafSdkError(http.request.error)
        /\ http.timer = "fired" /\ http.status = 0 =>
               http.request.error = AnafApiError(<<"Request timeout">>, Undefined)

\* C29: once the promise of request has settled, its timer is not pending
C29_NoTimerPendingAfterSettling ==
    http.request.kind # "pending" => http.timer # "pending"


\* a getCompanyData call that got as far as a CUI
Looked(l) == lookups[l].pc # "idle" /\ lookups[l].cui # Null

\* C23: with the cache enabled, a getCompanyData call that starts after a
\* call for the same CUI has returned a result obtained from the network,
\* less than cacheTtl milliseconds ago, returns at once, without a request,
\* the result the cache holds; with the cache disabled every call that has
\* a CUI makes a request and the cache stays empty
C23_CachedResultServedWithoutRequest ==
    /\ [][\A a, b \in Lookups :
             /\ config.enableCache
             /\ lookups[a].pc = "done"
             /\ lookups[a].requested
             /\ lookups[a].settled.kind = "resolved"
             /\ WholeLess(Whole(now - lookups[a].settledAt), config.cacheTtl)
             /\ lookups[b].pc = "idle"
             /\ lookups'[b].pc # "idle"
             /\ lookups'[b].cui = lookups[a].cui
             => /\ lookups'[b].pc = "done"
                /\ ~lookups'[b].requested
                /\ getCacheKey(lookups[a].cui) \in DOMAIN cache
                /\ lookups'[b].settled = Resolved(cache[getCacheKey(lookups[a].cui)].data)
                /\ cache' = cache]_vars
    /\ [](~config.enableCache =>
             /\ Cardinality(DOMAIN cache) = 0
             /\ \A l \in Lookups : Looked(l) => lookups[l].requested)

\* an error result obtained from the network, and a later call for the same
\* CUI, written differently, that returned it without a request
C23_Witness ==
    \E a, b \in Lookups :
        /\ config.enableCache
        /\ lookups[a].pc = "done" /\ lookups[a].requested
        /\ lookups[a].settled.kind = "resolved" /\ ~lookups[a].settled.value.success
        /\ lookups[b].pc = "done" /\ ~lookups[b].requested
        /\ lookups[b].cui = lookups[a].cui
        /\ lookups[b].vatCode # lookups[a].vatCode
        /\ lookups[b].at > lookups[a].settledAt
        /\ lookups[b].settled = lookups[a].settled

\* C28: a call returns a cached result only if less than cacheTtl
\* milliseconds lay between the storing of the entry and the call; a call
\* that finds an entry as old as cacheTtl or older makes a request, and the
\* entry it found is in the cache no more
C28_OnlyFreshEntriesReturned ==
    \A l \in Lookups :
        Looked(l) /\ config.enableCache =>
            LET seen == lookups[l].found
                key == getCacheKey(lookups[l].cui)
            IN /\ ~lookups[l].requested =>
                     /\ seen # Undefined
                     /\ lookups[l].at - seen.timestamp < config.cacheTtl.n
                     /\ lookups[l].settled = Resolved(seen.data)
               /\ seen # Undefined /\ lookups[l].at - seen.timestamp >= config.cacheTtl.n =>
                     /\ lookups[l].requested
                     /\ key \in DOMAIN cache => cache[key].timestamp > seen.timestamp

\* a call that found an entry exactly cacheTtl milliseconds old and made a
\* request
C28_Witness ==
    \E l \in Lookups :
        /\ Looked(l) /\ config.enableCache
        /\ lookups[l].found # Undefined
        /\ lookups[l].at - lookups[l].found.timestamp = config.cacheTtl.n
        /\ lookups[l].requested
        /\ getCacheKey(lookups[l].cui) \notin DOMAIN cache


\* C30: a batchGetCompanyData call whose lookups all settle comes to its
\* end, whatever numbers concurrency and delayMs are
C30_BatchTerminates == <>(batch.pc = "done")


(* C25: when the effective isSupplierVatPayer flag is false, the TaxAmount  *)
(* of every tax-subtotal block and the TaxAmount of the tax total written   *)
(* are 0.00 and the tax-inclusive total written is the line-extension       *)
(* total written, whatever the taxPercent of the lines.                     *)
C25_NonPayerChargesNoTax ==
    (Len(MonetaryTotals) > 0 /\ Defaulted /\ ~Truthy(isSupplierVatPayer)) =>
        /\ \A i \in 1..Len(TaxTotals[1].taxSubtotals) :
              TaxTotals[1].taxSubtotals[i].taxAmount = ZeroAmount
        /\ TaxTotals[1].taxAmount = ZeroAmount
        /\ MonetaryTotals[1].taxInclusiveAmount = MonetaryTotals[1].lineExtensionAmount

=============================================================================
